---------------------------- MODULE Spec2Model ----------------------------
(***************************************************************************)
(* Model of the TransportApp screens: the earnings calculator, the trip    *)
(* profitability calculator and the vehicle service register               *)
(* (src/src/components/screens/EarningsScreen.jsx).                        *)
(*                                                                         *)
(* JavaScript numbers are modelled as exact fractions <<n, d>> in lowest   *)
(* terms with d >= 0; d = 0 encodes the IEEE specials: <<1, 0>> is         *)
(* Infinity, <<-1, 0>> is -Infinity and <<0, 0>> is NaN.  Rounding of      *)
(* binary floating point is not modelled.                                  *)
(* The text of an input field is a sequence of one-character strings.      *)
(***************************************************************************)
EXTENDS Integers, Sequences, FiniteSets, TLC

(***************************************************************************)
(* Bounds                                                                  *)
(***************************************************************************)
MaxAmount == 2
MaxTimers == 1
MaxTripRows == 1
MaxRouteKm == 1
MaxGeoReqs == 1
MaxTripPrice == 12
MaxRouteHm == 20
MaxSvcLoads == 1
MaxServiceRows == 2
MaxYearSpan == 0
MaxEarnRows == 1
MaxHistLoads == 1
MaxSignOuts == 1
MaxHistRows == 2

(***************************************************************************)
(* JavaScript Number arithmetic                                            *)
(***************************************************************************)
Abs(n) == IF n < 0 THEN -n ELSE n

Sign(n) == IF n > 0 THEN 1 ELSE IF n < 0 THEN -1 ELSE 0

RECURSIVE GCD(_, _)
GCD(a, b) == IF b = 0 THEN a ELSE GCD(b, a % b)

Norm(n, d) ==
  IF d = 0 THEN <<Sign(n), 0>>
  ELSE LET g == GCD(Abs(n), d) IN <<n \div g, d \div g>>

NaN == <<0, 0>>
Infinity == <<1, 0>>
Zero == <<0, 1>>
Int2Num(k) == <<k, 1>>

IsNaN(x) == x = NaN
IsFinite(x) == x[2] > 0

Neg(a) == <<-a[1], a[2]>>

Add(a, b) ==
  IF IsNaN(a) \/ IsNaN(b) THEN NaN
  ELSE IF a[2] = 0 /\ b[2] = 0 THEN (IF a = b THEN a ELSE NaN)
  ELSE Norm(a[1] * b[2] + b[1] * a[2], a[2] * b[2])

Sub(a, b) == Add(a, Neg(b))

Mul(a, b) == Norm(a[1] * b[1], a[2] * b[2])

Recip(b) ==
  IF b[1] > 0 THEN <<b[2], b[1]>>
  ELSE IF b[1] < 0 THEN <<-b[2], -b[1]>>
  ELSE IF b[2] > 0 THEN Infinity
  ELSE NaN

Div(a, b) == Mul(a, Recip(b))

\* a > b and a >= b; every comparison with NaN is false
Gt(a, b) == ~IsNaN(a) /\ ~IsNaN(b) /\ a[1] * b[2] > b[1] * a[2]
Ge(a, b) == ~IsNaN(a) /\ ~IsNaN(b) /\ a[1] * b[2] >= b[1] * a[2]
Le(a, b) == Ge(b, a)
Lt(a, b) == Gt(b, a)

\* x || 0 : NaN and 0 are falsy
OrZero(x) == IF IsNaN(x) \/ x = Zero THEN Zero ELSE x

(***************************************************************************)
(* parseFloat: optional sign, digits, optional fraction; the longest       *)
(* numeric prefix is used and a text with no digit gives NaN.              *)
(***************************************************************************)
Digits == {"0", "1", "2", "3", "4", "5", "6", "7", "8", "9"}

DigitVal(c) ==
  CASE c = "0" -> 0 [] c = "1" -> 1 [] c = "2" -> 2 [] c = "3" -> 3
    [] c = "4" -> 4 [] c = "5" -> 5 [] c = "6" -> 6 [] c = "7" -> 7
    [] c = "8" -> 8 [] c = "9" -> 9

\* number of consecutive digits of s starting at position i
RECURSIVE DigitRun(_, _)
DigitRun(s, i) ==
  IF i <= Len(s) /\ s[i] \in Digits THEN 1 + DigitRun(s, i + 1) ELSE 0

\* value of the k digits of s starting at position i
RECURSIVE DigitsValue(_, _, _)
DigitsValue(s, i, k) ==
  IF k = 0 THEN 0
  ELSE 10 * DigitsValue(s, i, k - 1) + DigitVal(s[i + k - 1])

RECURSIVE Pow10(_)
Pow10(k) == IF k = 0 THEN 1 ELSE 10 * Pow10(k - 1)

\* parseInt(s): the sign and the leading digits, NaN without a digit
parseInt(s) ==
  LET neg == Len(s) >= 1 /\ s[1] = "-"
      start == IF Len(s) >= 1 /\ s[1] \in {"-", "+"} THEN 2 ELSE 1
      ni == DigitRun(s, start)
      mag == DigitsValue(s, start, ni)
  IN IF ni = 0 THEN NaN ELSE Norm(IF neg THEN -mag ELSE mag, 1)

parseFloat(s) ==
  LET neg == Len(s) >= 1 /\ s[1] = "-"
      start == IF Len(s) >= 1 /\ s[1] \in {"-", "+"} THEN 2 ELSE 1
      ni == DigitRun(s, start)
      dot == start + ni <= Len(s) /\ s[start + ni] = "."
      nf == IF dot THEN DigitRun(s, start + ni + 1) ELSE 0
      mag == DigitsValue(s, start, ni) * Pow10(nf)
               + DigitsValue(s, start + ni + 1, nf)
  IN IF ni + nf = 0 THEN NaN
     ELSE Norm(IF neg THEN -mag ELSE mag, Pow10(nf))


(***************************************************************************)
(* State                                                                   *)
(***************************************************************************)
VARIABLES
  user,               \* AuthContext user: NoUser or a user id
  session,            \* AuthContext session: None or Some(user id)
  authLoading,        \* AuthContext loading
  authInit,           \* getInitialSession is at its await
  signInReq,          \* signIn at its await: None or Some(credentials)
  signOutReqs,        \* signOut calls at their await
  route,              \* the router's location
  loginFormData,      \* Login formData: email and password texts
  loginLoading,       \* Login loading
  loginError,         \* Login error: "" or a message
  authEvent,          \* the auth or Login step that ran last
  regFormData,        \* Register formData: email, password, confirmPassword
  regLoading,         \* Register loading
  regNotification,    \* Register notification
  regTimers,          \* pending setTimeout callbacks of Register, by kind
  signUpReq,          \* signUp at its await: None or Some([live])
  signedUp,           \* history: some signUp returned without an error
  earnFormData,       \* EarningsScreen formData: field name -> text
  calculations,       \* EarningsScreen calculations: the nine derived values
  earnEffectPending,  \* the useEffect on [formData] has not run yet
  earnLoading,        \* EarningsScreen loading
  earnNotification,   \* EarningsScreen notification
  earnTimers,         \* pending setTimeout callbacks of showNotification
  earnSave,           \* EarningsScreen handleSave at its await: earningsData
  earnings_records,   \* rows of the earnings_records table
  earnEvent,          \* the EarningsScreen handler step that ran last
  refreshHistoryCallback, \* EarningsProvider refreshHistoryCallback
  histLoads,          \* loadEarningsHistory requests in flight, by user
  records,            \* HistoryScreen records (sequence of rows)
  filteredRecords,    \* HistoryScreen filteredRecords
  histEffectPending,  \* the useEffect that filters and sorts has not run yet
  histLoading,        \* HistoryScreen loading
  searchQuery,        \* HistoryScreen searchQuery (text)
  sortField,          \* HistoryScreen sortField
  sortOrder,          \* HistoryScreen sortOrder
  selectedRecord,     \* HistoryScreen selectedRecord: None or Some(id)
  histNotification,   \* HistoryScreen notification
  histTimers,         \* pending setTimeout callbacks of showNotification
  histDeletes,        \* deleteRecord requests in flight (row ids)
  histEvent,          \* the HistoryScreen step that ran last
  tripFormData,       \* TripsScreen formData: field name -> text
  originSuggestions, destinationSuggestions,
  showOriginSuggestions, showDestinationSuggestions,
  originCoords, destinationCoords,
  analysis,           \* TripsScreen analysis: None or the last result
  tripLoading,        \* TripsScreen loading
  tripNotification,   \* TripsScreen notification: None or [type, message]
  tripTimers,         \* pending setTimeout callbacks of showNotification
  geoReqs,            \* geocoding requests in flight: [isOrigin, query]
  calcReq,            \* calculateProfitability awaiting the routing reply
  routeRequests,      \* routing requests sent by the latest invocation
  saveReq,            \* TripsScreen handleSave awaiting the insert reply
  trip_analysis,      \* number of rows inserted into the trip_analysis table
  tripEvent,          \* the TripsScreen handler step that ran last
  currentMileage,     \* ServicesScreen currentMileage (text)
  selectedServices,   \* ServicesScreen selectedServices (sequence of keys)
  upcomingServices,   \* ServicesScreen upcomingServices (sequence of rows)
  svcLoading,         \* ServicesScreen loading
  svcNotification,    \* ServicesScreen notification
  svcTimers,          \* pending setTimeout callbacks of showNotification
  service_records,    \* rows of the service_records table
  svcNextId,          \* the id the store gives the next inserted row
  svcSave,            \* ServicesScreen handleSave at one of its awaits
  svcLoads,           \* loadUpcomingServices requests in flight, by user
  svcDeletes          \* deleteService requests in flight (row ids)

regVars == <<regFormData, regLoading, regNotification, regTimers, signUpReq,
             signedUp>>

authVars == <<user, session, authLoading, authInit, signInReq, signOutReqs,
              route, loginFormData, loginLoading, loginError, authEvent,
              regVars>>

earnSaveVars == <<earnLoading, earnNotification, earnTimers, earnSave,
                  earnings_records, earnEvent, refreshHistoryCallback,
                  histLoads>>

earnVars == <<earnFormData, calculations, earnEffectPending, earnSaveVars>>

tripVars == <<tripFormData, originSuggestions, destinationSuggestions,
              showOriginSuggestions, showDestinationSuggestions,
              originCoords, destinationCoords, analysis, tripLoading,
              tripNotification, tripTimers, geoReqs, calcReq, routeRequests,
              saveReq, trip_analysis, tripEvent>>

svcVars == <<currentMileage, selectedServices, upcomingServices, svcLoading,
             svcNotification, svcTimers, service_records, svcNextId, svcSave,
             svcLoads, svcDeletes>>

histVars == <<records, filteredRecords, histEffectPending, histLoading,
              searchQuery, sortField, sortOrder, selectedRecord,
              histNotification, histTimers, histDeletes, histEvent>>

vars == <<authVars, earnVars, tripVars, svcVars, histVars>>

\* an absent value (null) is the empty tuple, a present one a 1-tuple
None == <<>>
Some(x) == <<x>>
NoUser == "nouser"

\* the user ids of the data store
AllUsers == {"u1", "u2"}

\* no request in flight for any user
NoLoads == [u \in AllUsers |-> 0]

(***************************************************************************)
(* EarningsScreen: the earnings calculator                                 *)
(***************************************************************************)
EarnFields == {"totalEarnings", "tripsCompleted", "kilometersDriver",
               "hoursWorked", "tips", "extras", "fuelCost", "otherExpenses"}

EarnFormInit == [f \in EarnFields |-> <<>>]

CalculationsInit ==
  [grossEarnings |-> Zero, grossPerKm |-> Zero, grossPerHour |-> Zero,
   grossPerTrip |-> Zero, totalExpenses |-> Zero, netEarnings |-> Zero,
   netPerKm |-> Zero, netPerHour |-> Zero, netPerTrip |-> Zero]

\* Rate without the denominator guard
Rate_Unguarded(amount, denominator) == Div(amount, denominator)

\* denominator > 0 ? amount / denominator : 0
Rate(amount, denominator) ==
  IF Gt(denominator, Zero) THEN Div(amount, denominator) ELSE Zero

\* calculateValues with the extras left out of the gross amount and the fuel
\* cost left out of the expenses
calculateValues_Dropped(formData) ==
  LET totalEarnings == OrZero(parseFloat(formData.totalEarnings))
      tripsCompleted == OrZero(parseFloat(formData.tripsCompleted))
      kilometersDriver == OrZero(parseFloat(formData.kilometersDriver))
      hoursWorked == OrZero(parseFloat(formData.hoursWorked))
      tips == OrZero(parseFloat(formData.tips))
      otherExpenses == OrZero(parseFloat(formData.otherExpenses))
      grossEarnings == Add(totalEarnings, tips)
      totalExpenses == otherExpenses
      netEarnings == Sub(grossEarnings, totalExpenses)
  IN [grossEarnings |-> grossEarnings,
      grossPerKm |-> Rate(grossEarnings, kilometersDriver),
      grossPerHour |-> Rate(grossEarnings, hoursWorked),
      grossPerTrip |-> Rate(grossEarnings, tripsCompleted),
      totalExpenses |-> totalExpenses,
      netEarnings |-> netEarnings,
      netPerKm |-> Rate(netEarnings, kilometersDriver),
      netPerHour |-> Rate(netEarnings, hoursWorked),
      netPerTrip |-> Rate(netEarnings, tripsCompleted)]

calculateValues(formData) ==
  LET totalEarnings == OrZero(parseFloat(formData.totalEarnings))
      tripsCompleted == OrZero(parseFloat(formData.tripsCompleted))
      kilometersDriver == OrZero(parseFloat(formData.kilometersDriver))
      hoursWorked == OrZero(parseFloat(formData.hoursWorked))
      tips == OrZero(parseFloat(formData.tips))
      extras == OrZero(parseFloat(formData.extras))
      fuelCost == OrZero(parseFloat(formData.fuelCost))
      otherExpenses == OrZero(parseFloat(formData.otherExpenses))
      grossEarnings == Add(Add(totalEarnings, tips), extras)
      totalExpenses == Add(fuelCost, otherExpenses)
      netEarnings == Sub(grossEarnings, totalExpenses)
  IN [grossEarnings |-> grossEarnings,
      grossPerKm |-> Rate(grossEarnings, kilometersDriver),
      grossPerHour |-> Rate(grossEarnings, hoursWorked),
      grossPerTrip |-> Rate(grossEarnings, tripsCompleted),
      totalExpenses |-> totalExpenses,
      netEarnings |-> netEarnings,
      netPerKm |-> Rate(netEarnings, kilometersDriver),
      netPerHour |-> Rate(netEarnings, hoursWorked),
      netPerTrip |-> Rate(netEarnings, tripsCompleted)]

\* useEffect(() => calculateValues(), [formData])
CalculateValuesEffect ==
  /\ earnEffectPending
  /\ calculations' = calculateValues(earnFormData)
  /\ earnEffectPending' = FALSE
  /\ earnEvent' = "effect"
  /\ UNCHANGED <<earnFormData, earnLoading, earnNotification, earnTimers,
                 earnSave, earnings_records, refreshHistoryCallback,
                 histLoads, authVars, tripVars, svcVars>>
  /\ UNCHANGED histVars

(***************************************************************************)
(* TripsScreen: the trip profitability calculator                          *)
(***************************************************************************)
TripFormInit ==
  [origin |-> <<>>, destination |-> <<>>, desiredPricePerKm |-> <<>>,
   tripPrice |-> <<>>]

\* showNotification(type, message): set the notification and arm a timeout
\* that clears whatever notification is shown when it fires.  Pending
\* timeouts are counted up to MaxTimers; further ones only repeat the clearing.
Notice(type, message) == [type |-> type, message |-> message]

Min(a, b) == IF a < b THEN a ELSE b

tripShowNotification(type, message) ==
  /\ tripNotification' = Some(Notice(type, message))
  /\ tripTimers' = Min(tripTimers + 1, MaxTimers)

\* setTimeout(() => setNotification(null), 3000)
TripNotificationTimeout ==
  /\ tripEvent' = "timeout"
  /\ tripTimers > 0
  /\ tripNotification' = None
  /\ tripTimers' = tripTimers - 1
  /\ UNCHANGED <<authVars, earnVars, svcVars, tripFormData, originSuggestions,
                 destinationSuggestions, showOriginSuggestions,
                 showDestinationSuggestions, originCoords, destinationCoords,
                 analysis, tripLoading, geoReqs, calcReq, routeRequests,
                 saveReq, trip_analysis>>
  /\ UNCHANGED histVars

\* fetchSuggestions(query, isOrigin) up to its await: a short query clears
\* the list, any other query sends a geocoding request
fetchSuggestionsStart(query, isOrigin) ==
  IF Len(query) < 3
  THEN /\ originSuggestions' =
            IF isOrigin THEN <<>> ELSE originSuggestions
       /\ showOriginSuggestions' =
            IF isOrigin THEN FALSE ELSE showOriginSuggestions
       /\ destinationSuggestions' =
            IF isOrigin THEN destinationSuggestions ELSE <<>>
       /\ showDestinationSuggestions' =
            IF isOrigin THEN showDestinationSuggestions ELSE FALSE
       /\ UNCHANGED geoReqs
  ELSE /\ geoReqs' = geoReqs \cup {[isOrigin |-> isOrigin, query |-> query]}
       /\ UNCHANGED <<originSuggestions, destinationSuggestions,
                      showOriginSuggestions, showDestinationSuggestions>>

\* handleInputChange for the origin and destination inputs
TripHandleAddressChange(name, value) ==
  /\ tripEvent' = "input"
  /\ name \in {"origin", "destination"}
  /\ Len(value) >= 3 => Cardinality(geoReqs) < MaxGeoReqs
  /\ tripFormData' = [tripFormData EXCEPT ![name] = value]
  /\ fetchSuggestionsStart(value, name = "origin")
  /\ tripNotification' = None
  /\ UNCHANGED <<authVars, earnVars, svcVars, originCoords, destinationCoords,
                 analysis, tripLoading, tripTimers, calcReq, routeRequests,
                 saveReq, trip_analysis>>
  /\ UNCHANGED histVars

\* handleInputChange for the two price inputs
TripHandlePriceChange(name, value) ==
  /\ tripEvent' = "input"
  /\ name \in {"desiredPricePerKm", "tripPrice"}
  /\ tripFormData' = [tripFormData EXCEPT ![name] = value]
  /\ tripNotification' = None
  /\ UNCHANGED <<authVars, earnVars, svcVars, originSuggestions,
                 destinationSuggestions, showOriginSuggestions,
                 showDestinationSuggestions, originCoords, destinationCoords,
                 analysis, tripLoading, tripTimers, geoReqs, calcReq,
                 routeRequests, saveReq, trip_analysis>>
  /\ UNCHANGED histVars

\* fetchSuggestions after its await: the reply carries the features
FetchSuggestionsReply(req, features) ==
  /\ tripEvent' = "suggestionsReply"
  /\ req \in geoReqs
  /\ geoReqs' = geoReqs \ {req}
  /\ IF req.isOrigin
     THEN /\ originSuggestions' = features
          /\ showOriginSuggestions' = TRUE
          /\ UNCHANGED <<destinationSuggestions, showDestinationSuggestions>>
     ELSE /\ destinationSuggestions' = features
          /\ showDestinationSuggestions' = TRUE
          /\ UNCHANGED <<originSuggestions, showOriginSuggestions>>
  /\ UNCHANGED <<authVars, earnVars, svcVars, tripFormData, originCoords,
                 destinationCoords, analysis, tripLoading, tripNotification,
                 tripTimers, calcReq, routeRequests, saveReq, trip_analysis>>
  /\ UNCHANGED histVars

\* fetchSuggestions after its await: the request threw (only logged)
FetchSuggestionsError(req) ==
  /\ tripEvent' = "suggestionsError"
  /\ req \in geoReqs
  /\ geoReqs' = geoReqs \ {req}
  /\ UNCHANGED <<authVars, earnVars, svcVars, tripFormData, originSuggestions,
                 destinationSuggestions, showOriginSuggestions,
                 showDestinationSuggestions, originCoords, destinationCoords,
                 analysis, tripLoading, tripNotification, tripTimers, calcReq,
                 routeRequests, saveReq, trip_analysis>>
  /\ UNCHANGED histVars

SeqToSet(q) == {q[i] : i \in 1..Len(q)}

\* selectSuggestion(suggestion, isOrigin): a click on a listed suggestion
selectSuggestion(suggestion, isOrigin) ==
  /\ tripEvent' = "selectSuggestion"
  /\ IF isOrigin
     THEN /\ showOriginSuggestions
          /\ suggestion \in SeqToSet(originSuggestions)
          /\ tripFormData' =
               [tripFormData EXCEPT !.origin = suggestion.place_name]
          /\ originCoords' = suggestion.coordinates
          /\ originSuggestions' = <<>>
          /\ showOriginSuggestions' = FALSE
          /\ UNCHANGED <<destinationCoords, destinationSuggestions,
                         showDestinationSuggestions>>
     ELSE /\ showDestinationSuggestions
          /\ suggestion \in SeqToSet(destinationSuggestions)
          /\ tripFormData' =
               [tripFormData EXCEPT !.destination = suggestion.place_name]
          /\ destinationCoords' = suggestion.coordinates
          /\ destinationSuggestions' = <<>>
          /\ showDestinationSuggestions' = FALSE
          /\ UNCHANGED <<originCoords, originSuggestions,
                         showOriginSuggestions>>
  /\ UNCHANGED <<authVars, earnVars, svcVars, analysis, tripLoading,
                 tripNotification,
                 tripTimers, geoReqs, calcReq, routeRequests, saveReq,
                 trip_analysis>>
  /\ UNCHANGED histVars

\* !text : the empty string is falsy
Blank(text) == text = <<>>

\* the tier chosen with difference above the upper threshold only
profitabilityTier_StrictUpper(difference) ==
  IF Gt(difference, Int2Num(10)) THEN "rentable"
  ELSE IF Ge(difference, Int2Num(-10)) THEN "poco_rentable"
  ELSE "no_rentable"

\* the if / else if / else on difference
profitabilityTier(difference) ==
  IF Ge(difference, Int2Num(10)) THEN "rentable"
  ELSE IF Ge(difference, Int2Num(-10)) THEN "poco_rentable"
  ELSE "no_rentable"

\* the analysis built from the primary route's distance in metres
routeAnalysis(tripPrice, desiredPricePerKm, routeDistance) ==
  LET distanceKm == Div(Int2Num(routeDistance), Int2Num(1000))
      actualPricePerKm == Div(tripPrice, distanceKm)
      difference ==
        Mul(Div(Sub(actualPricePerKm, desiredPricePerKm), desiredPricePerKm),
            Int2Num(100))
  IN [distance |-> distanceKm,
      actualPricePerKm |-> actualPricePerKm,
      profitability |-> profitabilityTier(difference),
      difference |-> difference]

\* calcValidation without the check that the parsed prices are positive
calcValidation_NoPriceCheck(formData, oCoords, dCoords) ==
  IF oCoords = None \/ dCoords = None THEN "seleccionar"
  ELSE IF Blank(formData.desiredPricePerKm) \/ Blank(formData.tripPrice)
       THEN "completar"
  ELSE "ok"

\* which validation of calculateProfitability rejects the form, if any
calcValidation(formData, oCoords, dCoords) ==
  IF oCoords = None \/ dCoords = None THEN "seleccionar"
  ELSE IF Blank(formData.desiredPricePerKm) \/ Blank(formData.tripPrice)
       THEN "completar"
  ELSE IF \/ IsNaN(parseFloat(formData.tripPrice))
          \/ Le(parseFloat(formData.tripPrice), Zero)
          \/ IsNaN(parseFloat(formData.desiredPricePerKm))
          \/ Le(parseFloat(formData.desiredPricePerKm), Zero)
       THEN "precios"
  ELSE "ok"

\* calculateProfitability, a click on the (enabled) button, rejected by a
\* validation
CalculateProfitabilityInvalid ==
  /\ tripEvent' = "calculateProfitability"
  /\ ~tripLoading
  /\ calcValidation(tripFormData, originCoords, destinationCoords) # "ok"
  /\ tripShowNotification("error",
       calcValidation(tripFormData, originCoords, destinationCoords))
  /\ routeRequests' = 0
  /\ UNCHANGED <<authVars, earnVars, svcVars, tripFormData, originSuggestions,
                 destinationSuggestions, showOriginSuggestions,
                 showDestinationSuggestions, originCoords, destinationCoords,
                 analysis, tripLoading, geoReqs, calcReq, saveReq,
                 trip_analysis>>
  /\ UNCHANGED histVars

\* calculateProfitability up to its await: the routing request is sent
CalculateProfitabilityStart ==
  /\ tripEvent' = "calculateProfitability"
  /\ ~tripLoading
  /\ calcValidation(tripFormData, originCoords, destinationCoords) = "ok"
  /\ tripLoading' = TRUE
  /\ calcReq' = Some([tripPrice |-> parseFloat(tripFormData.tripPrice),
                      desiredPricePerKm |->
                        parseFloat(tripFormData.desiredPricePerKm),
                      originCoords |-> originCoords,
                      destinationCoords |-> destinationCoords])
  /\ routeRequests' = 1
  /\ UNCHANGED <<authVars, earnVars, svcVars, tripFormData, originSuggestions,
                 destinationSuggestions, showOriginSuggestions,
                 showDestinationSuggestions, originCoords, destinationCoords,
                 analysis, tripNotification, tripTimers, geoReqs, saveReq,
                 trip_analysis>>
  /\ UNCHANGED histVars

\* calculateProfitability after its await: a primary route came back
CalculateProfitabilityRoute(routeDistance) ==
  /\ tripEvent' = "routeOk"
  /\ calcReq # None
  /\ analysis' = Some(routeAnalysis(calcReq[1].tripPrice,
                                    calcReq[1].desiredPricePerKm,
                                    routeDistance))
  /\ tripLoading' = FALSE
  /\ calcReq' = None
  /\ UNCHANGED <<authVars, earnVars, svcVars, tripFormData, originSuggestions,
                 destinationSuggestions, showOriginSuggestions,
                 showDestinationSuggestions, originCoords, destinationCoords,
                 tripNotification, tripTimers, geoReqs, routeRequests,
                 saveReq, trip_analysis>>
  /\ UNCHANGED histVars

\* calcFailure that sends the routing request again instead of giving up
calcFailure_Retry(outcome) ==
  /\ routeRequests' = routeRequests + 1
  /\ UNCHANGED <<analysis, tripLoading, calcReq, tripNotification,
                 tripTimers>>

\* what calculateProfitability does when the lookup gives no route
\* ("empty": no routes in the reply, "throw": the request threw)
calcFailure(outcome) ==
  /\ tripShowNotification("error",
       IF outcome = "empty" THEN "sin_ruta" ELSE "error_ruta")
  /\ tripLoading' = FALSE
  /\ calcReq' = None
  /\ UNCHANGED <<analysis, routeRequests>>

\* calculateProfitability after its await: no route, or the request threw
CalculateProfitabilityFailed(outcome) ==
  /\ tripEvent' = IF outcome = "empty" THEN "routeEmpty" ELSE "routeThrow"
  /\ calcReq # None
  /\ outcome \in {"empty", "throw"}
  /\ calcFailure(outcome)
  /\ UNCHANGED <<authVars, earnVars, svcVars, tripFormData, originSuggestions,
                 destinationSuggestions, showOriginSuggestions,
                 showDestinationSuggestions, originCoords, destinationCoords,
                 geoReqs, saveReq, trip_analysis>>
  /\ UNCHANGED histVars

\* the row handleSave sends to trip_analysis
tripData(u, formData, a) ==
  [user_id |-> u,
   origin |-> formData.origin,
   destination |-> formData.destination,
   distance_km |-> a.distance,
   trip_price |-> parseFloat(formData.tripPrice),
   desired_price_per_km |-> parseFloat(formData.desiredPricePerKm),
   actual_price_per_km |-> a.actualPricePerKm,
   profitability |-> a.profitability]

\* handleSave up to its await (the button exists only with an analysis)
TripHandleSaveStart ==
  /\ tripEvent' = "handleSave"
  /\ ~tripLoading
  /\ user # NoUser
  /\ analysis # None
  /\ trip_analysis < MaxTripRows
  /\ tripLoading' = TRUE
  /\ saveReq' = Some(tripData(user, tripFormData, analysis[1]))
  /\ UNCHANGED <<authVars, earnVars, svcVars, tripFormData, originSuggestions,
                 destinationSuggestions, showOriginSuggestions,
                 showDestinationSuggestions, originCoords, destinationCoords,
                 analysis, tripNotification, tripTimers, geoReqs, calcReq,
                 routeRequests, trip_analysis>>
  /\ UNCHANGED histVars

\* handleSave after its await: the store inserted the row saveReq.  The
\* screen never reads trip_analysis back, so only the number of rows is kept.
TripHandleSaveInserted ==
  /\ tripEvent' = "saveInserted"
  /\ saveReq # None
  /\ trip_analysis' = trip_analysis + 1
  /\ tripShowNotification("success", "guardado")
  /\ tripFormData' = TripFormInit
  /\ originCoords' = None
  /\ destinationCoords' = None
  /\ analysis' = None
  /\ tripLoading' = FALSE
  /\ saveReq' = None
  /\ UNCHANGED <<authVars, earnVars, svcVars, originSuggestions,
                 destinationSuggestions, showOriginSuggestions,
                 showDestinationSuggestions, geoReqs, calcReq, routeRequests>>
  /\ UNCHANGED histVars

\* handleSave after its await: the insert returned an error or threw
TripHandleSaveFailed ==
  /\ tripEvent' = "saveFailed"
  /\ saveReq # None
  /\ tripShowNotification("error", "no_guardado")
  /\ tripLoading' = FALSE
  /\ saveReq' = None
  /\ UNCHANGED <<authVars, earnVars, svcVars, tripFormData, originSuggestions,
                 destinationSuggestions, showOriginSuggestions,
                 showDestinationSuggestions, originCoords, destinationCoords,
                 analysis, geoReqs, calcReq, routeRequests, trip_analysis>>
  /\ UNCHANGED histVars

(***************************************************************************)
(* Calendar dates and the Date object.  A date text YYYY-MM-DD is the      *)
(* record [y, m, d].  new Date(text) is midnight UTC of that day, while    *)
(* getFullYear and setFullYear work on the local time of the host's time   *)
(* zone and toISOString gives the UTC day again.                           *)
(***************************************************************************)
MkDate(y, m, d) == [y |-> y, m |-> m, d |-> d]

IsLeapYear(y) == (y % 4 = 0 /\ y % 100 # 0) \/ y % 400 = 0

DaysInMonth(y, m) ==
  IF m \in {4, 6, 9, 11} THEN 30
  ELSE IF m = 2 THEN (IF IsLeapYear(y) THEN 29 ELSE 28)
  ELSE 31

NextDay(t) ==
  IF t.d < DaysInMonth(t.y, t.m) THEN MkDate(t.y, t.m, t.d + 1)
  ELSE IF t.m < 12 THEN MkDate(t.y, t.m + 1, 1)
  ELSE MkDate(t.y + 1, 1, 1)

PrevDay(t) ==
  IF t.d > 1 THEN MkDate(t.y, t.m, t.d - 1)
  ELSE IF t.m > 1 THEN MkDate(t.y, t.m - 1, DaysInMonth(t.y, t.m - 1))
  ELSE MkDate(t.y - 1, 12, 31)

DateLt(a, b) ==
  \/ a.y < b.y
  \/ a.y = b.y /\ a.m < b.m
  \/ a.y = b.y /\ a.m = b.m /\ a.d < b.d

\* day of the week, 0 = Sunday
DayOfWeek(y, m, d) ==
  LET shift == <<0, 3, 2, 5, 0, 3, 5, 1, 4, 6, 2, 4>>
      yy == IF m < 3 THEN y - 1 ELSE y
  IN (yy + (yy \div 4) - (yy \div 100) + (yy \div 400) + shift[m] + d) % 7

\* day of the month of the n-th Sunday of month m
NthSunday(y, m, n) == 1 + ((7 - DayOfWeek(y, m, 1)) % 7) + 7 * (n - 1)

\* host time zones: hours east of UTC, and the daylight-saving rule
BuenosAires == [std |-> -3, dst |-> "none"]
NewYork == [std |-> -5, dst |-> "us"]

\* United States rule: second Sunday of March to first Sunday of November,
\* switching at 02:00 local time
DstStart(y) == MkDate(y, 3, NthSunday(y, 3, 2))
DstEnd(y) == MkDate(y, 11, NthSunday(y, 11, 1))

\* offset of the zone at midnight UTC of day t (zones west of Greenwich)
OffsetAtUtcMidnight(tz, t) ==
  IF tz.dst = "us" /\ DateLt(DstStart(t.y), t) /\ ~DateLt(DstEnd(t.y), t)
  THEN tz.std + 1 ELSE tz.std

\* offset of the zone at local day t, local hour h
OffsetAtLocal(tz, t, h) ==
  IF /\ tz.dst = "us"
     /\ DateLt(DstStart(t.y), t) \/ (t = DstStart(t.y) /\ h >= 2)
     /\ DateLt(t, DstEnd(t.y)) \/ (t = DstEnd(t.y) /\ h < 2)
  THEN tz.std + 1 ELSE tz.std

\* a day and an hour that may lie outside 0..23, as a proper day and hour
DayHour(t, h) ==
  IF h < 0 THEN [date |-> PrevDay(t), hour |-> h + 24]
  ELSE IF h >= 24 THEN [date |-> NextDay(t), hour |-> h - 24]
  ELSE [date |-> t, hour |-> h]

\* MakeDay: a day of the month past the end of the month runs into the next
MakeDay(y, m, d) ==
  IF d <= DaysInMonth(y, m) THEN MkDate(y, m, d)
  ELSE IF m < 12 THEN MkDate(y, m + 1, d - DaysInMonth(y, m))
  ELSE MkDate(y + 1, 1, d - DaysInMonth(y, m))

\* const n = new Date(text); n.setFullYear(n.getFullYear() + years);
\* n.toISOString().split('T')[0]
addYearsISO(serviceDate, years, tz) ==
  LET local == DayHour(serviceDate, OffsetAtUtcMidnight(tz, serviceDate))
      moved == MakeDay(local.date.y + years, local.date.m, local.date.d)
      utc == DayHour(moved,
                     local.hour - OffsetAtLocal(tz, moved, local.hour))
  IN utc.date

(***************************************************************************)
(* ServicesScreen: the vehicle service register                            *)
(***************************************************************************)
SERVICE_TYPES ==
  <<[key |-> "vtv", rule |-> "years", value |-> 2],
    [key |-> "oil_change", rule |-> "km", value |-> 10000],
    [key |-> "timing_belt", rule |-> "km", value |-> 70000],
    [key |-> "brakes", rule |-> "km", value |-> 40000]>>

NoNextService == [next_service_date |-> None, next_service_mileage |-> None]

calculateNextService_KeepsBoth(serviceType, mileage, serviceDate, tz) ==
  LET found == {i \in 1..Len(SERVICE_TYPES) :
                  SERVICE_TYPES[i].key = serviceType}
  IN IF found = {} THEN NoNextService
     ELSE LET service == SERVICE_TYPES[CHOOSE i \in found : TRUE]
          IN IF service.rule = "years"
             THEN [next_service_date |->
                     Some(addYearsISO(serviceDate, service.value, tz)),
                   next_service_mileage |-> None]
             ELSE [next_service_date |-> Some(serviceDate),
                   next_service_mileage |->
                     Some(Add(mileage, Int2Num(service.value)))]

calculateNextService(serviceType, mileage, serviceDate, tz) ==
  LET found == {i \in 1..Len(SERVICE_TYPES) :
                  SERVICE_TYPES[i].key = serviceType}
  IN IF found = {} THEN NoNextService
     ELSE LET service == SERVICE_TYPES[CHOOSE i \in found : TRUE]
          IN IF service.rule = "years"
             THEN [next_service_date |->
                     Some(addYearsISO(serviceDate, service.value, tz)),
                   next_service_mileage |-> None]
             ELSE [next_service_date |-> None,
                   next_service_mileage |->
                     Some(Add(mileage, Int2Num(service.value)))]

svcShowNotification(type, message) ==
  /\ svcNotification' = Some(Notice(type, message))
  /\ svcTimers' = Min(svcTimers + 1, MaxTimers)

\* setTimeout(() => setNotification(null), 3000)
SvcNotificationTimeout ==
  /\ svcTimers > 0
  /\ svcNotification' = None
  /\ svcTimers' = svcTimers - 1
  /\ UNCHANGED <<authVars, earnVars, tripVars, currentMileage,
                 selectedServices, upcomingServices, svcLoading,
                 service_records, svcNextId, svcSave, svcLoads, svcDeletes>>
  /\ UNCHANGED histVars

\* loadUpcomingServices() up to its await: the select names the user of the
\* render the function belongs to; requests in flight are counted for each
\* user up to MaxSvcLoads, a further one only repeats the reload
loadUpcomingServicesStart ==
  svcLoads' = IF user = NoUser THEN svcLoads
              ELSE [svcLoads EXCEPT ![user] = Min(@ + 1, MaxSvcLoads)]

\* rows of a set, newest (largest id) first
RECURSIVE NewestFirst(_)
NewestFirst(rows) ==
  IF rows = {} THEN <<>>
  ELSE LET r == CHOOSE x \in rows : \A z \in rows : z.id <= x.id
       IN <<r>> \o NewestFirst(rows \ {r})

\* loadUpcomingServices after its await: the user's rows came back
LoadUpcomingServicesReply ==
  /\ \E u \in AllUsers :
       /\ svcLoads[u] > 0
       /\ svcLoads' = [svcLoads EXCEPT ![u] = @ - 1]
       /\ upcomingServices' =
            NewestFirst({r \in service_records : r.user_id = u})
  /\ UNCHANGED <<authVars, earnVars, tripVars, currentMileage,
                 selectedServices, svcLoading, svcNotification, svcTimers,
                 service_records, svcNextId, svcSave, svcDeletes>>
  /\ UNCHANGED histVars

\* loadUpcomingServices after its await: the select failed
LoadUpcomingServicesError ==
  /\ \E u \in AllUsers :
       /\ svcLoads[u] > 0
       /\ svcLoads' = [svcLoads EXCEPT ![u] = @ - 1]
  /\ svcShowNotification("error", "error_cargar")
  /\ UNCHANGED <<authVars, earnVars, tripVars, currentMileage,
                 selectedServices, upcomingServices, svcLoading,
                 service_records, svcNextId, svcSave, svcDeletes>>
  /\ UNCHANGED histVars

\* onChange of the mileage input
SvcMileageChange(value) ==
  /\ currentMileage' = value
  /\ svcNotification' = None
  /\ UNCHANGED <<authVars, earnVars, tripVars, selectedServices,
                 upcomingServices, svcLoading, svcTimers, service_records,
                 svcNextId, svcSave, svcLoads, svcDeletes>>
  /\ UNCHANGED histVars

\* toggleService(serviceKey)
toggleService(serviceKey) ==
  /\ selectedServices' =
       IF serviceKey \in SeqToSet(selectedServices)
       THEN SelectSeq(selectedServices, LAMBDA k : k # serviceKey)
       ELSE Append(selectedServices, serviceKey)
  /\ UNCHANGED <<authVars, earnVars, tripVars, currentMileage,
                 upcomingServices, svcLoading, svcNotification, svcTimers,
                 service_records, svcNextId, svcSave, svcLoads, svcDeletes>>
  /\ UNCHANGED histVars

\* handleSave rejected by its validation
SvcHandleSaveInvalid ==
  /\ ~svcLoading
  /\ user = NoUser \/ Blank(currentMileage) \/ Len(selectedServices) = 0
  /\ svcShowNotification("error", "completar")
  /\ UNCHANGED <<authVars, earnVars, tripVars, currentMileage,
                 selectedServices, upcomingServices, svcLoading,
                 service_records, svcNextId, svcSave, svcLoads, svcDeletes>>
  /\ UNCHANGED histVars

\* one turn of the for loop up to the select's await: the next-due value of
\* the first service still to do is computed and the select is sent
saveLoopTurn(u, mileage, currentDate, tz, todo) ==
  Some([user_id |-> u, mileage |-> mileage, currentDate |-> currentDate,
        tz |-> tz, todo |-> todo,
        nextService |->
          calculateNextService(Head(todo), mileage, currentDate, tz),
        phase |-> "select", write |-> "none", target |-> 0])

\* handleSave up to its first await; today is the UTC day of new Date() and
\* tz the host's time zone
SvcHandleSaveStart(today, tz) ==
  /\ ~svcLoading
  /\ user # NoUser /\ ~Blank(currentMileage) /\ Len(selectedServices) > 0
  /\ svcLoading' = TRUE
  /\ svcSave' = saveLoopTurn(user, parseFloat(currentMileage), today, tz,
                             selectedServices)
  /\ UNCHANGED <<authVars, earnVars, tripVars, currentMileage,
                 selectedServices, upcomingServices, svcNotification,
                 svcTimers, service_records, svcNextId, svcLoads, svcDeletes>>
  /\ UNCHANGED histVars

\* the rows the select of handleSave matches
existingRows(u, serviceType) ==
  {r \in service_records : r.user_id = u /\ r.service_type = serviceType}

\* the existing row handleSave goes on with when the select failed: none,
\* because only data is read from the reply and error is not looked at
selectErrorTarget(rows) == 0

\* handleSave after the select's await: data holds at most one id (limit 1)
\* or is null after an error; the update or the insert is sent
SvcHandleSaveSelected(ok) ==
  /\ svcSave # None
  /\ svcSave[1].phase = "select"
  /\ LET rows == existingRows(svcSave[1].user_id, Head(svcSave[1].todo))
     IN \E target \in IF ok /\ rows # {} THEN {r.id : r \in rows}
                      ELSE IF ok THEN {0}
                      ELSE {selectErrorTarget(rows)} :
          svcSave' = Some([svcSave[1] EXCEPT
                             !.phase = "write",
                             !.write =
                               IF target # 0 THEN "update" ELSE "insert",
                             !.target = target])
  /\ UNCHANGED <<authVars, earnVars, tripVars, currentMileage,
                 selectedServices, upcomingServices, svcLoading,
                 svcNotification, svcTimers, service_records, svcNextId,
                 svcLoads, svcDeletes>>
  /\ UNCHANGED histVars

\* serviceData as a full row; a key nextService lacks keeps the column of
\* the row written over (null in a new row)
serviceRow(id, p, old) ==
  [id |-> id,
   user_id |-> p.user_id,
   service_type |-> Head(p.todo),
   service_date |-> p.currentDate,
   current_mileage |-> p.mileage,
   next_service_date |->
     IF p.nextService.next_service_date # None
     THEN p.nextService.next_service_date ELSE old.next_service_date,
   next_service_mileage |->
     IF p.nextService.next_service_mileage # None
     THEN p.nextService.next_service_mileage ELSE old.next_service_mileage]

\* the table after the update or insert of handleSave
writtenRecords(p) ==
  IF p.write = "insert"
  THEN service_records \cup {serviceRow(svcNextId, p, NoNextService)}
  ELSE {IF r.id = p.target THEN serviceRow(r.id, p, r) ELSE r :
          r \in service_records}

\* handleSave after the write's await, the write done: the next turn of the
\* loop, or the end of handleSave
SvcHandleSaveWritten ==
  /\ svcSave # None
  /\ svcSave[1].phase = "write"
  /\ service_records' = writtenRecords(svcSave[1])
  /\ svcNextId' = IF svcSave[1].write = "insert" THEN svcNextId + 1
                  ELSE svcNextId
  /\ IF Len(svcSave[1].todo) > 1
     THEN /\ svcSave' = saveLoopTurn(svcSave[1].user_id, svcSave[1].mileage,
                                     svcSave[1].currentDate, svcSave[1].tz,
                                     Tail(svcSave[1].todo))
          /\ UNCHANGED <<currentMileage, selectedServices, svcLoading,
                         svcNotification, svcTimers, svcLoads>>
     ELSE /\ svcSave' = None
          /\ svcShowNotification("success", "registrados")
          /\ currentMileage' = <<>>
          /\ selectedServices' = <<>>
          /\ loadUpcomingServicesStart
          /\ svcLoading' = FALSE
  /\ UNCHANGED <<authVars, earnVars, tripVars, upcomingServices, svcDeletes>>
  /\ UNCHANGED histVars

\* handleSave whose catch also cleared the form
SvcHandleSaveFailed_ClearsForm ==
  /\ svcSave # None
  /\ svcSave' = None
  /\ svcShowNotification("error", "no_guardados")
  /\ currentMileage' = <<>>
  /\ selectedServices' = <<>>
  /\ svcLoading' = FALSE
  /\ UNCHANGED <<authVars, earnVars, tripVars, upcomingServices,
                 service_records, svcNextId, svcLoads, svcDeletes>>
  /\ UNCHANGED histVars

\* handleSave after an await: the write returned an error, or a request
\* threw
SvcHandleSaveFailed ==
  /\ svcSave # None
  /\ svcSave' = None
  /\ svcShowNotification("error", "no_guardados")
  /\ svcLoading' = FALSE
  /\ UNCHANGED <<authVars, earnVars, tripVars, currentMileage,
                 selectedServices, upcomingServices, service_records,
                 svcNextId, svcLoads, svcDeletes>>
  /\ UNCHANGED histVars

\* deleteService(serviceId) on a listed row, confirmed, up to its await
DeleteServiceStart(serviceId) ==
  /\ serviceId \in {r.id : r \in SeqToSet(upcomingServices)}
  /\ svcDeletes' = svcDeletes \cup {serviceId}
  /\ UNCHANGED <<authVars, earnVars, tripVars, currentMileage,
                 selectedServices, upcomingServices, svcLoading,
                 svcNotification, svcTimers, service_records, svcNextId,
                 svcSave, svcLoads>>
  /\ UNCHANGED histVars

\* deleteService after its await: the row is gone
DeleteServiceDone(serviceId) ==
  /\ serviceId \in svcDeletes
  /\ svcDeletes' = svcDeletes \ {serviceId}
  /\ service_records' = {r \in service_records : r.id # serviceId}
  /\ svcShowNotification("success", "eliminado")
  /\ loadUpcomingServicesStart
  /\ UNCHANGED <<authVars, earnVars, tripVars, currentMileage,
                 selectedServices, upcomingServices, svcLoading, svcNextId,
                 svcSave>>
  /\ UNCHANGED histVars

\* deleteService after its await: the delete failed
DeleteServiceFailed(serviceId) ==
  /\ serviceId \in svcDeletes
  /\ svcDeletes' = svcDeletes \ {serviceId}
  /\ svcShowNotification("error", "no_eliminado")
  /\ UNCHANGED <<authVars, earnVars, tripVars, currentMileage,
                 selectedServices, upcomingServices, svcLoading,
                 service_records, svcNextId, svcSave, svcLoads>>
  /\ UNCHANGED histVars

\* days from 1970-01-01 to day t (Date's time value in days)
DayNumber(t) ==
  LET y == IF t.m <= 2 THEN t.y - 1 ELSE t.y
      era == y \div 400
      yoe == y - era * 400
      mp == IF t.m > 2 THEN t.m - 3 ELSE t.m + 9
      doy == ((153 * mp + 2) \div 5) + t.d - 1
      doe == yoe * 365 + (yoe \div 4) - (yoe \div 100) + doy
  IN era * 146097 + doe - 719468

\* Math.ceil(a / b) for b > 0
CeilDiv(a, b) == -((-a) \div b)

\* Math.ceil((nextServiceDate.getTime() - today.getTime()) / (1000*60*60*24))
\* with new Date(text) at midnight UTC and today = now, an instant given as
\* its UTC day and hour
daysUntilService(nextServiceDate, now) ==
  CeilDiv(24 * (DayNumber(nextServiceDate) - DayNumber(now.date)) - now.hour,
          24)

\* a number as a condition: null, 0 and NaN are falsy
Truthy(x) == x # None /\ ~IsNaN(x[1]) /\ x[1] # Zero

isServiceDue_Floor(service, mileageText, now) ==
  IF service.next_service_date # None
  THEN (24 * (DayNumber(service.next_service_date[1])
                - DayNumber(now.date)) - now.hour) \div 24 <= 30
  ELSE IF Truthy(service.next_service_mileage) /\ ~Blank(mileageText)
  THEN Ge(parseFloat(mileageText),
          Sub(service.next_service_mileage[1], Int2Num(1000)))
  ELSE FALSE

isServiceDue_Strict(service, mileageText, now) ==
  IF service.next_service_date # None
  THEN daysUntilService(service.next_service_date[1], now) <= 30
  ELSE IF Truthy(service.next_service_mileage) /\ ~Blank(mileageText)
  THEN Gt(parseFloat(mileageText),
          Sub(service.next_service_mileage[1], Int2Num(1000)))
  ELSE FALSE

\* isServiceDue(service), reading the mileage input and the clock
isServiceDue(service, mileageText, now) ==
  IF service.next_service_date # None
  THEN daysUntilService(service.next_service_date[1], now) <= 30
  ELSE IF Truthy(service.next_service_mileage) /\ ~Blank(mileageText)
  THEN Ge(parseFloat(mileageText),
          Sub(service.next_service_mileage[1], Int2Num(1000)))
  ELSE FALSE

(***************************************************************************)
(* EarningsScreen: the form and handleSave.  React runs the effect of a    *)
(* render before it handles the next event, so every handler step waits    *)
(* for a pending calculateValues.                                          *)
(***************************************************************************)
\* the useState values of the screen's loading and notification, nothing in
\* flight, an empty earnings_records table
EarnSaveInit ==
  /\ earnLoading = FALSE
  /\ earnNotification = None
  /\ earnTimers = 0
  /\ earnSave = None
  /\ earnings_records = {}
  /\ earnEvent = "mount"
  /\ histLoads = NoLoads

earnShowNotification(type, message) ==
  /\ earnNotification' = Some(Notice(type, message))
  /\ earnTimers' = Min(earnTimers + 1, MaxTimers)

\* setTimeout(() => setNotification(null), 3000)
EarnNotificationTimeout ==
  /\ ~earnEffectPending
  /\ earnTimers > 0
  /\ earnEvent' = "timeout"
  /\ earnNotification' = None
  /\ earnTimers' = earnTimers - 1
  /\ UNCHANGED <<authVars, tripVars, svcVars, earnFormData, calculations,
                 earnEffectPending, earnLoading, earnSave, earnings_records,
                 refreshHistoryCallback, histLoads>>
  /\ UNCHANGED histVars

\* handleInputChange without the new formData object: the effect on
\* [formData] is not run again
EarnHandleInputChange_NoEffect(name, value) ==
  /\ ~earnEffectPending
  /\ earnEvent' = "input"
  /\ earnFormData' = [earnFormData EXCEPT ![name] = value]
  /\ earnNotification' = None
  /\ UNCHANGED <<authVars, tripVars, svcVars, calculations, earnLoading,
                 earnEffectPending, earnTimers, earnSave, earnings_records,
                 refreshHistoryCallback, histLoads>>
  /\ UNCHANGED histVars

\* handleInputChange(e): the new formData makes the effect run again
EarnHandleInputChange(name, value) ==
  /\ ~earnEffectPending
  /\ earnEvent' = "input"
  /\ earnFormData' = [earnFormData EXCEPT ![name] = value]
  /\ earnEffectPending' = TRUE
  /\ earnNotification' = None
  /\ UNCHANGED <<authVars, tripVars, svcVars, calculations, earnLoading,
                 earnTimers, earnSave, earnings_records,
                 refreshHistoryCallback, histLoads>>
  /\ UNCHANGED histVars

requiredFields ==
  <<"totalEarnings", "tripsCompleted", "kilometersDriver", "hoursWorked">>

missingFields_TotalOnly(formData) ==
  SelectSeq(<<"totalEarnings">>, LAMBDA field : Blank(formData[field]))

\* requiredFields.filter(field => !formData[field])
missingFields(formData) ==
  SelectSeq(requiredFields, LAMBDA field : Blank(formData[field]))

\* handleSave without a user: returns at once
EarnHandleSaveNoUser ==
  /\ ~earnEffectPending
  /\ ~earnLoading
  /\ user = NoUser
  /\ earnEvent' = "handleSave"
  /\ UNCHANGED <<authVars, tripVars, svcVars, earnFormData, calculations,
                 earnEffectPending, earnLoading, earnNotification,
                 earnTimers, earnSave, earnings_records,
                 refreshHistoryCallback, histLoads>>
  /\ UNCHANGED histVars

\* handleSave rejected by its validation
EarnHandleSaveInvalid ==
  /\ ~earnEffectPending
  /\ ~earnLoading
  /\ user # NoUser
  /\ Len(missingFields(earnFormData)) > 0
  /\ earnEvent' = "handleSave"
  /\ earnShowNotification("error", "completar")
  /\ UNCHANGED <<authVars, tripVars, svcVars, earnFormData, calculations,
                 earnEffectPending, earnLoading, earnSave, earnings_records,
                 refreshHistoryCallback, histLoads>>
  /\ UNCHANGED histVars

earningsData(u, today, formData, calc) ==
  [user_id |-> u,
   date |-> today,
   total_earnings |-> parseFloat(formData.totalEarnings),
   trips_completed |-> parseInt(formData.tripsCompleted),
   kilometers_driven |-> parseFloat(formData.kilometersDriver),
   hours_worked |-> parseFloat(formData.hoursWorked),
   tips |-> OrZero(parseFloat(formData.tips)),
   extras |-> OrZero(parseFloat(formData.extras)),
   fuel_cost |-> OrZero(parseFloat(formData.fuelCost)),
   other_expenses |-> OrZero(parseFloat(formData.otherExpenses)),
   gross_earnings |-> calc.grossEarnings,
   gross_per_km |-> calc.grossPerKm,
   gross_per_hour |-> calc.grossPerHour,
   gross_per_trip |-> calc.grossPerTrip,
   total_expenses |-> calc.totalExpenses,
   net_earnings |-> calc.netEarnings,
   net_per_km |-> calc.netPerKm,
   net_per_hour |-> calc.netPerHour,
   net_per_trip |-> calc.netPerTrip]

\* handleSave up to its await: the insert is sent
EarnHandleSaveStart(today) ==
  /\ ~earnEffectPending
  /\ ~earnLoading
  /\ user # NoUser
  /\ Len(missingFields(earnFormData)) = 0
  /\ Cardinality(earnings_records) < MaxEarnRows
  /\ earnEvent' = "handleSave"
  /\ earnLoading' = TRUE
  /\ earnSave' = Some(earningsData(user, today, earnFormData, calculations))
  /\ UNCHANGED <<authVars, tripVars, svcVars, earnFormData, calculations,
                 earnEffectPending, earnNotification, earnTimers,
                 earnings_records, refreshHistoryCallback, histLoads>>
  /\ UNCHANGED histVars

\* function values: loadEarningsHistory itself, and () => f
LoadEarningsHistoryFn == [kind |-> "loadEarningsHistory"]
Arrow(f) == [kind |-> "arrow", returns |-> f]

\* setRefreshHistory(callback): setRefreshHistoryCallback(() => callback);
\* React calls the updater it is given and stores what the updater returns
setRefreshHistory(callback) == Arrow(callback).returns

\* the state HistoryScreen's effect leaves:
\* setRefreshHistory(() => loadEarningsHistory)
HistoryRegisters == setRefreshHistory(Arrow(LoadEarningsHistoryFn))

\* refreshHistory(): the registered function is called once; only a call of
\* loadEarningsHistory itself sends the select (when there is a user), a
\* call of an arrow function just returns its value
refreshHistory ==
  histLoads' = IF /\ refreshHistoryCallback # None
                  /\ refreshHistoryCallback[1].kind = "loadEarningsHistory"
                  /\ user # NoUser
               THEN [histLoads EXCEPT ![user] = Min(@ + 1, MaxHistLoads)]
               ELSE histLoads

\* the ids of earnings rows the store has given out and that are still held
\* somewhere
usedEarnIds ==
  {r.id : r \in earnings_records} \cup {records[i].id : i \in 1..Len(records)}
    \cup histDeletes

\* the row the store makes of inserted data: it adds an id never used
earningsRow(data) ==
  [id |-> CHOOSE k \in 1..(Cardinality(usedEarnIds) + 1) :
            k \notin usedEarnIds /\ \A j \in 1..(k - 1) : j \in usedEarnIds]
    @@ data

\* handleSave after its await: the row is inserted
EarnHandleSaveInserted ==
  /\ ~earnEffectPending
  /\ earnSave # None
  /\ earnEvent' = "saveInserted"
  /\ earnings_records' = earnings_records \cup {earningsRow(earnSave[1])}
  /\ earnSave' = None
  /\ earnShowNotification("success", "guardado")
  /\ earnFormData' = EarnFormInit
  /\ earnEffectPending' = TRUE
  /\ refreshHistory
  /\ earnLoading' = FALSE
  /\ UNCHANGED <<authVars, tripVars, svcVars, calculations,
                 refreshHistoryCallback>>
  /\ UNCHANGED histVars

\* handleSave after its await: the insert failed
EarnHandleSaveFailed ==
  /\ ~earnEffectPending
  /\ earnSave # None
  /\ earnEvent' = "saveError"
  /\ earnSave' = None
  /\ earnShowNotification("error", "no_guardado")
  /\ earnLoading' = FALSE
  /\ UNCHANGED <<authVars, tripVars, svcVars, earnFormData, calculations,
                 earnEffectPending, earnings_records, refreshHistoryCallback,
                 histLoads>>
  /\ UNCHANGED histVars

(***************************************************************************)
(* Inputs of the calculator: what a type="number" input delivers, the      *)
(* empty text (blank or rejected non-numeric typing) or a decimal literal. *)
(***************************************************************************)
DigitChar(k) ==
  CASE k = 0 -> "0" [] k = 1 -> "1" [] k = 2 -> "2" [] k = 3 -> "3"
    [] k = 4 -> "4" [] k = 5 -> "5" [] k = 6 -> "6" [] k = 7 -> "7"
    [] k = 8 -> "8" [] k = 9 -> "9"

RECURSIVE IntText(_)
IntText(k) ==
  IF k < 10 THEN <<DigitChar(k)>>
  ELSE Append(IntText(k \div 10), DigitChar(k % 10))

TotalTexts == {<<>>, <<"2", ".", "5">>}
                \cup {IntText(10 * k) : k \in 1..MaxAmount}
OptionalTexts == {<<>>} \cup {IntText(5 * k) : k \in 1..MaxAmount}
DenomTexts == {<<>>, <<"0">>, <<"-", "1">>}
                \cup {IntText(k) : k \in 1..MaxAmount}

CalcInputs ==
  [totalEarnings : TotalTexts, tips : OptionalTexts, extras : OptionalTexts,
   fuelCost : OptionalTexts, otherExpenses : OptionalTexts,
   tripsCompleted : DenomTexts, kilometersDriver : DenomTexts,
   hoursWorked : DenomTexts]

\* the screens as first rendered for a signed-in user
EarnInitState ==
  /\ earnFormData = EarnFormInit
  /\ calculations = CalculationsInit
  /\ earnEffectPending = TRUE
  /\ EarnSaveInit
  /\ refreshHistoryCallback = None

TripInitState ==
  /\ tripFormData = TripFormInit
  /\ originSuggestions = <<>>
  /\ destinationSuggestions = <<>>
  /\ showOriginSuggestions = FALSE
  /\ showDestinationSuggestions = FALSE
  /\ originCoords = None
  /\ destinationCoords = None
  /\ analysis = None
  /\ tripLoading = FALSE
  /\ tripNotification = None
  /\ tripTimers = 0
  /\ geoReqs = {}
  /\ calcReq = None
  /\ routeRequests = 0
  /\ saveReq = None
  /\ trip_analysis = 0
  /\ tripEvent = "mount"

\* the useState values of ServicesScreen and an empty service_records table
SvcStateInit ==
  /\ currentMileage = <<>>
  /\ selectedServices = <<>>
  /\ upcomingServices = <<>>
  /\ svcLoading = FALSE
  /\ svcNotification = None
  /\ svcTimers = 0
  /\ service_records = {}
  /\ svcNextId = 1
  /\ svcSave = None
  /\ svcDeletes = {}

\* ServicesScreen not shown: nothing of it is in flight
SvcInitState == SvcStateInit /\ svcLoads = NoLoads

(***************************************************************************)
(* HistoryScreen: the loaded records, their filtered and sorted image, and *)
(* deleteRecord.  As in EarningsScreen the effect that filters and sorts   *)
(* runs before the next event is handled.                                  *)
(***************************************************************************)
\* the useState values of HistoryScreen, nothing of it in flight
HistInitState ==
  /\ records = <<>>
  /\ filteredRecords = <<>>
  /\ histEffectPending = FALSE
  /\ histLoading = TRUE
  /\ searchQuery = <<>>
  /\ sortField = "date"
  /\ sortOrder = "desc"
  /\ selectedRecord = None
  /\ histNotification = None
  /\ histTimers = 0
  /\ histDeletes = {}
  /\ histEvent = "mount"

histShowNotification(type, message) ==
  /\ histNotification' = Some(Notice(type, message))
  /\ histTimers' = Min(histTimers + 1, MaxTimers)

\* setTimeout(() => setNotification(null), 3000)
HistNotificationTimeout ==
  /\ ~histEffectPending
  /\ histTimers > 0
  /\ histEvent' = "timeout"
  /\ histNotification' = None
  /\ histTimers' = histTimers - 1
  /\ UNCHANGED <<authVars, earnVars, tripVars, svcVars, records,
                 filteredRecords, histEffectPending, histLoading, searchQuery,
                 sortField, sortOrder, selectedRecord, histDeletes>>

\* k written with two digits
TwoDigits(k) == <<DigitChar(k \div 10), DigitChar(k % 10)>>

\* the date column as the store returns it: YYYY-MM-DD
DateText(t) == IntText(t.y) \o <<"-">> \o TwoDigits(t.m) \o <<"-">>
                 \o TwoDigits(t.d)

\* Number.prototype.toString of an integer value (the amounts of the rows
\* of SpecHistory are integers)
NumText(x) ==
  IF x[1] < 0 THEN <<"-">> \o IntText((-x[1]) \div x[2])
  ELSE IntText(x[1] \div x[2])

\* String.prototype.includes
includes(text, query) ==
  \E i \in 1..(Len(text) + 1) :
    /\ i + Len(query) - 1 <= Len(text)
    /\ SubSeq(text, i, i + Len(query) - 1) = query

\* String.prototype.toLowerCase over the letters that are typed here
toLowerCase(text) ==
  [i \in 1..Len(text) |->
     CASE text[i] = "X" -> "x" [] text[i] = "E" -> "e" [] OTHER -> text[i]]

\* the filter that leaves out the gross earnings
matches_NoGross(record, query) ==
  \/ includes(DateText(record.date), query)
  \/ includes(NumText(record.net_earnings), query)

\* the predicate of the filter of filterAndSortRecords
matches(record, query) ==
  \/ includes(DateText(record.date), query)
  \/ includes(NumText(record.net_earnings), query)
  \/ includes(NumText(record.gross_earnings), query)

\* the value the comparator compares: a[sortField], as a time for the date
sortValue(record, field) ==
  IF field = "date" THEN Int2Num(DayNumber(record.date)) ELSE record[field]

\* the comparator of filterAndSortRecords: it never returns 0
compareRecords(a, b, field, order) ==
  IF order = "asc"
  THEN IF Gt(sortValue(a, field), sortValue(b, field)) THEN 1 ELSE -1
  ELSE IF Lt(sortValue(a, field), sortValue(b, field)) THEN 1 ELSE -1

\* the sequences with the elements of q, each as often as in q
Reorderings(q) ==
  {[i \in 1..Len(q) |-> q[p[i]]] :
     p \in {f \in [1..Len(q) -> 1..Len(q)] :
              \A i, j \in 1..Len(q) : i # j => f[i] # f[j]}}

\* what Array.prototype.sort may leave: no two elements in an order the
\* comparator rejects both ways round (records it calls equal both ways
\* round, because it never returns 0, come in an order the engine picks)
sortOutcomes(q, field, order) ==
  {p \in Reorderings(q) :
     \A i, j \in 1..Len(p) :
       i < j => ~(/\ compareRecords(p[i], p[j], field, order) > 0
                  /\ compareRecords(p[j], p[i], field, order) < 0)}

\* the records filterAndSortRecords keeps
filterRecords(q, query) ==
  IF query # <<>>
  THEN SelectSeq(q, LAMBDA record : matches(record, toLowerCase(query)))
  ELSE q

\* the useEffect on [records, searchQuery, sortField, sortOrder]
FilterAndSortRecordsEffect ==
  /\ histEffectPending
  /\ histEffectPending' = FALSE
  /\ histEvent' = "effect"
  /\ filteredRecords' \in
       sortOutcomes(filterRecords(records, searchQuery), sortField, sortOrder)
  /\ UNCHANGED <<authVars, earnVars, tripVars, svcVars, records, histLoading,
                 searchQuery, sortField, sortOrder, selectedRecord,
                 histNotification, histTimers, histDeletes>>

\* loadEarningsHistory() up to its await: the select names the user of the
\* render the function belongs to
loadEarningsHistoryStart ==
  IF user = NoUser THEN UNCHANGED <<histLoads, histLoading>>
  ELSE /\ histLoads' = [histLoads EXCEPT ![user] = Min(@ + 1, MaxHistLoads)]
       /\ histLoading' = TRUE

\* loadEarningsHistory after its await: the user's rows came back, newest
\* date first
LoadEarningsHistoryReply ==
  /\ ~histEffectPending
  /\ histEvent' = "loaded"
  /\ \E u \in AllUsers :
       /\ histLoads[u] > 0
       /\ histLoads' = [histLoads EXCEPT ![u] = @ - 1]
       /\ \E q \in [1..Cardinality({r \in earnings_records : r.user_id = u})
                      -> {r \in earnings_records : r.user_id = u}] :
            /\ \A i, j \in DOMAIN q : i # j => q[i] # q[j]
            /\ records' \in sortOutcomes(q, "date", "desc")
  /\ histLoading' = FALSE
  /\ histEffectPending' = TRUE
  /\ UNCHANGED <<authVars, tripVars, svcVars, earnFormData, calculations,
                 earnEffectPending, earnLoading, earnNotification, earnTimers,
                 earnSave, earnings_records, earnEvent,
                 refreshHistoryCallback, filteredRecords, searchQuery,
                 sortField, sortOrder, selectedRecord, histNotification,
                 histTimers, histDeletes>>

\* loadEarningsHistory after its await: the select failed
LoadEarningsHistoryError ==
  /\ ~histEffectPending
  /\ histEvent' = "loadError"
  /\ \E u \in AllUsers :
       /\ histLoads[u] > 0
       /\ histLoads' = [histLoads EXCEPT ![u] = @ - 1]
  /\ histShowNotification("error", "error_cargar")
  /\ histLoading' = FALSE
  /\ UNCHANGED <<authVars, tripVars, svcVars, earnFormData, calculations,
                 earnEffectPending, earnLoading, earnNotification, earnTimers,
                 earnSave, earnings_records, earnEvent,
                 refreshHistoryCallback, records, filteredRecords,
                 histEffectPending, searchQuery, sortField, sortOrder,
                 selectedRecord, histDeletes>>

\* onChange of the search input: setSearchQuery(e.target.value)
SetSearchQuery(value) ==
  /\ ~histEffectPending
  /\ histEvent' = "search"
  /\ searchQuery' = value
  /\ histEffectPending' = (value # searchQuery)
  /\ UNCHANGED <<authVars, earnVars, tripVars, svcVars, records,
                 filteredRecords, histLoading, sortField, sortOrder,
                 selectedRecord, histNotification, histTimers, histDeletes>>

\* handleSort that keeps the direction when another field is chosen
handleSort_KeepsOrder(field) ==
  /\ ~histEffectPending
  /\ histEvent' = "handleSort"
  /\ sortField' = field
  /\ sortOrder' = IF sortField = field
                  THEN (IF sortOrder = "asc" THEN "desc" ELSE "asc")
                  ELSE sortOrder
  /\ histEffectPending' = TRUE
  /\ UNCHANGED <<authVars, earnVars, tripVars, svcVars, records,
                 filteredRecords, histLoading, searchQuery, selectedRecord,
                 histNotification, histTimers, histDeletes>>

\* handleSort(field)
handleSort(field) ==
  /\ ~histEffectPending
  /\ histEvent' = "handleSort"
  /\ IF sortField = field
     THEN /\ sortOrder' = IF sortOrder = "asc" THEN "desc" ELSE "asc"
          /\ UNCHANGED sortField
     ELSE /\ sortField' = field
          /\ sortOrder' = "desc"
  /\ histEffectPending' = (sortField' # sortField \/ sortOrder' # sortOrder)
  /\ UNCHANGED <<authVars, earnVars, tripVars, svcVars, records,
                 filteredRecords, histLoading, searchQuery, selectedRecord,
                 histNotification, histTimers, histDeletes>>

\* onClick of a listed record: it is expanded or folded
ToggleSelectedRecord(recordId) ==
  /\ ~histEffectPending
  /\ \E i \in 1..Len(filteredRecords) : filteredRecords[i].id = recordId
  /\ histEvent' = "select"
  /\ selectedRecord' =
       IF selectedRecord = Some(recordId) THEN None ELSE Some(recordId)
  /\ UNCHANGED <<authVars, earnVars, tripVars, svcVars, records,
                 filteredRecords, histEffectPending, histLoading, searchQuery,
                 sortField, sortOrder, histNotification, histTimers,
                 histDeletes>>

\* deleteRecord that does not look at the answer of window.confirm
DeleteRecordAsk_NoConfirm(recordId, confirmed) ==
  /\ ~histEffectPending
  /\ \E i \in 1..Len(filteredRecords) : filteredRecords[i].id = recordId
  /\ recordId \notin histDeletes
  /\ histEvent' = IF confirmed THEN "deleteConfirmed" ELSE "deleteDeclined"
  /\ histDeletes' = histDeletes \cup {recordId}
  /\ UNCHANGED <<authVars, earnVars, tripVars, svcVars, records,
                 filteredRecords, histEffectPending, histLoading, searchQuery,
                 sortField, sortOrder, selectedRecord, histNotification,
                 histTimers>>

\* deleteRecord(recordId) up to its await: window.confirm answers, and the
\* delete is sent when the answer is yes
DeleteRecordAsk(recordId, confirmed) ==
  /\ ~histEffectPending
  /\ \E i \in 1..Len(filteredRecords) : filteredRecords[i].id = recordId
  /\ recordId \notin histDeletes
  /\ histEvent' = IF confirmed THEN "deleteConfirmed" ELSE "deleteDeclined"
  /\ histDeletes' = IF confirmed THEN histDeletes \cup {recordId}
                    ELSE histDeletes
  /\ UNCHANGED <<authVars, earnVars, tripVars, svcVars, records,
                 filteredRecords, histEffectPending, histLoading, searchQuery,
                 sortField, sortOrder, selectedRecord, histNotification,
                 histTimers>>

\* deleteRecord after its await: the row is gone from the table and from
\* records
DeleteRecordDone(recordId) ==
  /\ ~histEffectPending
  /\ recordId \in histDeletes
  /\ histEvent' = "deleted"
  /\ histDeletes' = histDeletes \ {recordId}
  /\ earnings_records' = {r \in earnings_records : r.id # recordId}
  /\ records' = SelectSeq(records, LAMBDA record : record.id # recordId)
  /\ histEffectPending' = (records' # records)
  /\ selectedRecord' = None
  /\ histShowNotification("success", "eliminado")
  /\ UNCHANGED <<authVars, tripVars, svcVars, earnFormData, calculations,
                 earnEffectPending, earnLoading, earnNotification, earnTimers,
                 earnSave, earnEvent, refreshHistoryCallback, histLoads,
                 filteredRecords, histLoading, searchQuery, sortField,
                 sortOrder>>

\* deleteRecord after its await: the delete failed
DeleteRecordFailed(recordId) ==
  /\ ~histEffectPending
  /\ recordId \in histDeletes
  /\ histEvent' = "deleteFailed"
  /\ histDeletes' = histDeletes \ {recordId}
  /\ histShowNotification("error", "error_eliminar")
  /\ UNCHANGED <<authVars, earnVars, tripVars, svcVars, records,
                 filteredRecords, histEffectPending, histLoading, searchQuery,
                 sortField, sortOrder, selectedRecord>>

Users == {"u1"}

(***************************************************************************)
(* AuthProvider, ProtectedRoute, Login and the sign-out of Navigation      *)
(***************************************************************************)
LoginFormInit == [email |-> <<>>, password |-> <<>>]

\* the useState values of Login
LoginInitState ==
  /\ loginFormData = LoginFormInit
  /\ loginLoading = FALSE
  /\ loginError = ""

RegFormInit == [email |-> <<>>, password |-> <<>>, confirmPassword |-> <<>>]

NoRegTimers == [error |-> 0, success |-> 0, stale |-> 0]

\* the useState values of Register; no signUp was ever called
RegInitState ==
  /\ regFormData = RegFormInit
  /\ regLoading = FALSE
  /\ regNotification = None
  /\ regTimers = NoRegTimers
  /\ signUpReq = None
  /\ signedUp = FALSE

\* the session check is over and no auth call is in flight; the dashboard
\* is shown to the user of the session
AuthSettled ==
  /\ session = IF user = NoUser THEN None ELSE Some(user)
  /\ authLoading = FALSE
  /\ authInit = FALSE
  /\ signInReq = None
  /\ signOutReqs = 0
  /\ route = "/dashboard"
  /\ LoginInitState
  /\ RegInitState
  /\ authEvent = "settled"

ProtectedRoute_IgnoresLoading(u, loading) ==
  IF u = NoUser THEN "redirect" ELSE "children"

\* what ProtectedRoute renders
ProtectedRoute(u, loading) ==
  IF loading THEN "spinner"
  ELSE IF u = NoUser THEN "redirect"
  ELSE "children"

\* what the Routes of App show
View ==
  IF route = "/dashboard" THEN ProtectedRoute(user, authLoading) ELSE route

\* getInitialSession after its await
GetInitialSessionReply(outcome) ==
  /\ authInit
  /\ authInit' = FALSE
  /\ authEvent' = outcome
  /\ \E u \in Users :
       /\ session' = CASE outcome = "initSession" -> Some(u)
                       [] outcome = "initNoSession" -> None
                       [] OTHER -> session
       /\ user' = CASE outcome = "initSession" -> u
                    [] outcome = "initNoSession" -> NoUser
                    [] OTHER -> user
  /\ authLoading' = FALSE
  /\ UNCHANGED <<signInReq, signOutReqs, route, loginFormData, loginLoading,
                 loginError, earnVars, tripVars,
                 svcVars, regVars>>
  /\ UNCHANGED histVars

\* the onAuthStateChange callback
AuthStateChange(newSession) ==
  /\ authEvent' = "authStateChange"
  /\ session' = newSession
  /\ user' = IF newSession = None THEN NoUser ELSE newSession[1]
  /\ authLoading' = FALSE
  /\ UNCHANGED <<authInit, signInReq, signOutReqs, route, loginFormData,
                 loginLoading, loginError, earnVars, tripVars,
                 svcVars, regVars>>
  /\ UNCHANGED histVars

\* <Navigate to="/login" replace /> of ProtectedRoute: Login is mounted
ProtectedRedirect ==
  /\ View = "redirect"
  /\ authEvent' = "redirect"
  /\ route' = "/login"
  /\ loginFormData' = LoginFormInit
  /\ loginLoading' = FALSE
  /\ loginError' = ""
  /\ UNCHANGED <<user, session, authLoading, authInit, signInReq,
                 signOutReqs, earnVars, tripVars,
                 svcVars, regVars>>
  /\ UNCHANGED histVars

\* Login.handleInputChange
LoginHandleInputChange(name, value) ==
  /\ View = "/login"
  /\ authEvent' = "loginInput"
  /\ loginFormData' = [loginFormData EXCEPT ![name] = value]
  /\ loginError' = ""
  /\ UNCHANGED <<user, session, authLoading, authInit, signInReq,
                 signOutReqs, route, loginLoading, earnVars, tripVars,
                 svcVars, regVars>>
  /\ UNCHANGED histVars

\* Login.handleSubmit with a blank field (the inputs are marked required, so
\* this branch is reached only where the browser does not hold the form back)
LoginSubmitInvalid ==
  /\ View = "/login"
  /\ ~loginLoading
  /\ Blank(loginFormData.email) \/ Blank(loginFormData.password)
  /\ authEvent' = "loginInvalid"
  /\ loginError' = "completar"
  /\ UNCHANGED <<user, session, authLoading, authInit, signInReq,
                 signOutReqs, route, loginFormData, loginLoading, earnVars,
                 tripVars, svcVars, regVars>>
  /\ UNCHANGED histVars

\* Login.handleSubmit and signIn up to the await of signInWithPassword
LoginSubmitStart ==
  /\ View = "/login"
  /\ ~loginLoading
  /\ ~Blank(loginFormData.email) /\ ~Blank(loginFormData.password)
  /\ signInReq = None
  /\ authEvent' = "loginSubmit"
  /\ loginLoading' = TRUE
  /\ loginError' = ""
  /\ authLoading' = TRUE
  /\ signInReq' = Some(loginFormData)
  /\ UNCHANGED <<user, session, authInit, signOutReqs, route, loginFormData,
                 earnVars, tripVars,
                 svcVars, regVars>>
  /\ UNCHANGED histVars

\* the message Login shows after signIn returned: none when it succeeded
signInMessage(outcome) ==
  CASE outcome = "signInError" -> "auth_error"
    [] outcome = "signInThrow" -> "inesperado"
    [] OTHER -> ""

\* signIn whose setLoading(false) is skipped when the request throws
SignInReply_NoFinally(outcome) ==
  /\ signInReq # None
  /\ signInReq' = None
  /\ authEvent' = outcome
  /\ \E u \in Users :
       /\ session' = IF outcome = "signInSession" THEN Some(u) ELSE session
       /\ user' = IF outcome = "signInSession" THEN u ELSE user
  /\ authLoading' = IF outcome = "signInThrow" THEN authLoading ELSE FALSE
  /\ IF signInMessage(outcome) # ""
     THEN loginError' = signInMessage(outcome) /\ route' = route
     ELSE loginError' = loginError /\ route' = "/dashboard"
  /\ loginLoading' = FALSE
  /\ UNCHANGED <<authInit, signOutReqs, loginFormData, earnVars, tripVars,
                 svcVars, regVars>>
  /\ UNCHANGED histVars

\* signIn after its await, and Login.handleSubmit after signIn returned
SignInReply(outcome) ==
  /\ signInReq # None
  /\ signInReq' = None
  /\ authEvent' = outcome
  /\ \E u \in Users :
       /\ session' = IF outcome = "signInSession" THEN Some(u) ELSE session
       /\ user' = IF outcome = "signInSession" THEN u ELSE user
  /\ authLoading' = FALSE
  /\ IF signInMessage(outcome) # ""
     THEN loginError' = signInMessage(outcome) /\ route' = route
     ELSE loginError' = loginError /\ route' = "/dashboard"
  /\ loginLoading' = FALSE
  /\ UNCHANGED <<authInit, signOutReqs, loginFormData, earnVars, tripVars,
                 svcVars, regVars>>
  /\ UNCHANGED histVars

\* Navigation.handleSignOut and signOut up to the await
SignOutStart ==
  /\ View = "children"
  /\ signOutReqs < MaxSignOuts
  /\ authEvent' = "signOut"
  /\ authLoading' = TRUE
  /\ signOutReqs' = signOutReqs + 1
  /\ UNCHANGED <<user, session, authInit, signInReq, route, loginFormData,
                 loginLoading, loginError, earnVars, tripVars,
                 svcVars, regVars>>
  /\ UNCHANGED histVars

\* signOut that drops the session whatever the provider answered
SignOutReply_AlwaysClears(outcome) ==
  /\ signOutReqs > 0
  /\ signOutReqs' = signOutReqs - 1
  /\ authEvent' = outcome
  /\ session' = None
  /\ user' = NoUser
  /\ authLoading' = FALSE
  /\ UNCHANGED <<authInit, signInReq, route, loginFormData, loginLoading,
                 loginError, earnVars, tripVars,
                 svcVars, regVars>>
  /\ UNCHANGED histVars

\* signOut after its await; on an error Navigation.handleSignOut only logs
\* it to the console
SignOutReply(outcome) ==
  /\ signOutReqs > 0
  /\ signOutReqs' = signOutReqs - 1
  /\ authEvent' = outcome
  /\ session' = IF outcome = "signOutOk" THEN None ELSE session
  /\ user' = IF outcome = "signOutOk" THEN NoUser ELSE user
  /\ authLoading' = FALSE
  /\ UNCHANGED <<authInit, signInReq, route, loginFormData, loginLoading,
                 loginError, earnVars, tripVars,
                 svcVars, regVars>>
  /\ UNCHANGED histVars

(***************************************************************************)
(* Register and the signUp of AuthProvider.  A timer of showNotification   *)
(* is of kind error or success while the Register that set it is mounted;  *)
(* when Register unmounts, its error timers have nothing left to do and    *)
(* its success timers are stale: they still call navigate('/login').       *)
(***************************************************************************)
\* the timers left when Register unmounts
regUnmount(timers) ==
  [error |-> 0, success |-> 0,
   stale |-> Min(timers.stale + timers.success, MaxTimers)]

\* Register.showNotification(type, message) of the mounted Register
regShowNotification(type, message) ==
  /\ regNotification' = Some(Notice(type, message))
  /\ regTimers' = [regTimers EXCEPT ![type] = Min(@ + 1, MaxTimers)]

\* the Link of Login to /register: Register is mounted
GoRegister ==
  /\ View = "/login"
  /\ authEvent' = "goRegister"
  /\ route' = "/register"
  /\ regFormData' = RegFormInit
  /\ regLoading' = FALSE
  /\ regNotification' = None
  /\ UNCHANGED <<user, session, authLoading, authInit, signInReq,
                 signOutReqs, loginFormData, loginLoading, loginError,
                 regTimers, signUpReq, signedUp, earnVars, tripVars, svcVars>>
  /\ UNCHANGED histVars

\* Register leaves the screen and Login is mounted
regToLogin ==
  /\ route' = "/login"
  /\ regTimers' = regUnmount(regTimers)
  /\ signUpReq' = IF signUpReq = None THEN None ELSE Some([live |-> FALSE])
  /\ loginFormData' = LoginFormInit
  /\ loginLoading' = FALSE
  /\ loginError' = ""

\* the Link of Register to /login
GoLogin ==
  /\ View = "/register"
  /\ authEvent' = "goLogin"
  /\ regToLogin
  /\ UNCHANGED <<user, session, authLoading, authInit, signInReq,
                 signOutReqs, regFormData, regLoading, regNotification,
                 signedUp, earnVars, tripVars, svcVars>>
  /\ UNCHANGED histVars

\* Register.handleInputChange
RegHandleInputChange(name, value) ==
  /\ View = "/register"
  /\ authEvent' = "regInput"
  /\ regFormData' = [regFormData EXCEPT ![name] = value]
  /\ regNotification' = None
  /\ UNCHANGED <<user, session, authLoading, authInit, signInReq,
                 signOutReqs, route, loginFormData, loginLoading, loginError,
                 regLoading, regTimers, signUpReq, signedUp, earnVars,
                 tripVars, svcVars>>
  /\ UNCHANGED histVars

regValidation_NoLength(formData) ==
  IF Blank(formData.email) \/ Blank(formData.password)
     \/ Blank(formData.confirmPassword) THEN "completar"
  ELSE IF formData.password # formData.confirmPassword THEN "no_coinciden"
  ELSE ""

\* the message of the first check of Register.handleSubmit that fails, ""
\* when none does
regValidation(formData) ==
  IF Blank(formData.email) \/ Blank(formData.password)
     \/ Blank(formData.confirmPassword) THEN "completar"
  ELSE IF formData.password # formData.confirmPassword THEN "no_coinciden"
  ELSE IF Len(formData.password) < 6 THEN "corta"
  ELSE ""

\* Register.handleSubmit stopped by one of its checks
RegSubmitInvalid ==
  /\ View = "/register"
  /\ ~regLoading
  /\ regValidation(regFormData) # ""
  /\ authEvent' = "regInvalid"
  /\ regShowNotification("error", regValidation(regFormData))
  /\ UNCHANGED <<user, session, authLoading, authInit, signInReq,
                 signOutReqs, route, loginFormData, loginLoading, loginError,
                 regFormData, regLoading, signUpReq, signedUp, earnVars,
                 tripVars, svcVars>>
  /\ UNCHANGED histVars

\* Register.handleSubmit and signUp up to the await of supabase.auth.signUp
RegSubmitStart ==
  /\ View = "/register"
  /\ ~regLoading
  /\ regValidation(regFormData) = ""
  /\ signUpReq = None
  /\ authEvent' = "regSubmit"
  /\ regLoading' = TRUE
  /\ authLoading' = TRUE
  /\ signUpReq' = Some([live |-> TRUE])
  /\ UNCHANGED <<user, session, authInit, signInReq, signOutReqs, route,
                 loginFormData, loginLoading, loginError, regFormData,
                 regNotification, regTimers, signedUp, earnVars, tripVars,
                 svcVars>>
  /\ UNCHANGED histVars

\* signUp after its await and Register.handleSubmit after signUp returned;
\* the state setters of a Register that was unmounted meanwhile do nothing,
\* its setTimeout is still set
SignUpReply(outcome) ==
  /\ signUpReq # None
  /\ signUpReq' = None
  /\ authEvent' = outcome
  /\ authLoading' = FALSE
  /\ signedUp' = (signedUp \/ outcome = "signUpOk")
  /\ IF signUpReq[1].live
     THEN /\ regLoading' = FALSE
          /\ IF outcome = "signUpOk"
             THEN regShowNotification("success", "creada")
             ELSE regShowNotification("error",
                    IF outcome = "signUpError" THEN "auth_error"
                    ELSE "inesperado")
     ELSE /\ regTimers' =
               IF outcome = "signUpOk"
               THEN [regTimers EXCEPT !.stale = Min(@ + 1, MaxTimers)]
               ELSE regTimers
          /\ UNCHANGED <<regLoading, regNotification>>
  /\ UNCHANGED <<user, session, authInit, signInReq, signOutReqs, route,
                 loginFormData, loginLoading, loginError, regFormData,
                 earnVars, tripVars, svcVars>>
  /\ UNCHANGED histVars

\* the setTimeout callback of an error notification of the mounted Register
RegErrorTimeout ==
  /\ regTimers.error > 0
  /\ authEvent' = "regTimeout"
  /\ regTimers' = [regTimers EXCEPT !.error = @ - 1]
  /\ regNotification' = None
  /\ UNCHANGED <<user, session, authLoading, authInit, signInReq,
                 signOutReqs, route, loginFormData, loginLoading, loginError,
                 regFormData, regLoading, signUpReq, signedUp, earnVars,
                 tripVars, svcVars>>
  /\ UNCHANGED histVars

\* the setTimeout callback of a success notification of the mounted
\* Register: navigate('/login')
RegSuccessTimeout ==
  /\ regTimers.success > 0
  /\ authEvent' = "regNavigate"
  /\ regNotification' = None
  /\ route' = "/login"
  /\ regTimers' = regUnmount([regTimers EXCEPT !.success = @ - 1])
  /\ signUpReq' = IF signUpReq = None THEN None ELSE Some([live |-> FALSE])
  /\ loginFormData' = LoginFormInit
  /\ loginLoading' = FALSE
  /\ loginError' = ""
  /\ UNCHANGED <<user, session, authLoading, authInit, signInReq,
                 signOutReqs, regFormData, regLoading, signedUp, earnVars,
                 tripVars, svcVars>>
  /\ UNCHANGED histVars

\* the setTimeout callback of a success notification of a Register that is
\* no longer mounted: navigate('/login') from wherever the user is
RegStaleTimeout ==
  /\ regTimers.stale > 0
  /\ authEvent' = "regNavigate"
  /\ route' = "/login"
  /\ LET rest == [regTimers EXCEPT !.stale = @ - 1]
     IN regTimers' = IF route = "/register" THEN regUnmount(rest) ELSE rest
  /\ signUpReq' = IF route = "/register" /\ signUpReq # None
                  THEN Some([live |-> FALSE]) ELSE signUpReq
  /\ IF route = "/login"
     THEN UNCHANGED <<loginFormData, loginLoading, loginError>>
     ELSE /\ loginFormData' = LoginFormInit
          /\ loginLoading' = FALSE
          /\ loginError' = ""
  /\ UNCHANGED <<user, session, authLoading, authInit, signInReq,
                 signOutReqs, regFormData, regLoading, regNotification,
                 signedUp, earnVars, tripVars, svcVars>>
  /\ UNCHANGED histVars

(***************************************************************************)
(* SpecCalc: the earnings calculator applied to every bounded input        *)
(***************************************************************************)
CalcInit ==
  /\ user \in Users
  /\ AuthSettled
  /\ HistInitState
  /\ earnFormData \in CalcInputs
  /\ calculations = CalculationsInit
  /\ earnEffectPending = TRUE
  /\ EarnSaveInit
  /\ refreshHistoryCallback = None
  /\ TripInitState
  /\ SvcInitState

CalcNext == CalculateValuesEffect

SpecCalc == CalcInit /\ [][CalcNext]_vars

(***************************************************************************)
(* The geocoder's features and the typed texts                             *)
(***************************************************************************)
PlazaMayo ==
  [place_name |-> <<"P", "l", "a", "z", "a">>, coordinates |-> <<-58, -34>>]

Obelisco ==
  [place_name |-> <<"O", "b", "e", "l">>, coordinates |-> <<-59, -35>>]

TripPriceTexts == {<<>>, <<"0">>, <<"9">>, <<"1", "1">>}
DesiredPriceTexts == {<<>>, <<"0">>, <<"1", "0">>}

\* distances in metres of the primary route
RouteDistances == {1000 * k : k \in 0..MaxRouteKm}

(***************************************************************************)
(* SpecTrips: the price inputs, calculateProfitability and handleSave of   *)
(* the trip screen.  Each address is either still unset or was picked from *)
(* the suggestions (the state selectSuggestion leaves).                    *)
(***************************************************************************)
TripsInit ==
  /\ user \in Users
  /\ AuthSettled
  /\ HistInitState
  /\ EarnInitState
  /\ \E pickedOrigin \in BOOLEAN, pickedDestination \in BOOLEAN :
       /\ tripFormData =
            [TripFormInit EXCEPT
               !.origin = IF pickedOrigin THEN PlazaMayo.place_name ELSE <<>>,
               !.destination =
                 IF pickedDestination THEN Obelisco.place_name ELSE <<>>]
       /\ originCoords =
            IF pickedOrigin THEN PlazaMayo.coordinates ELSE None
       /\ destinationCoords =
            IF pickedDestination THEN Obelisco.coordinates ELSE None
  /\ originSuggestions = <<>>
  /\ destinationSuggestions = <<>>
  /\ showOriginSuggestions = FALSE
  /\ showDestinationSuggestions = FALSE
  /\ analysis = None
  /\ tripLoading = FALSE
  /\ tripNotification = None
  /\ tripTimers = 0
  /\ geoReqs = {}
  /\ calcReq = None
  /\ routeRequests = 0
  /\ saveReq = None
  /\ trip_analysis = 0
  /\ tripEvent = "mount"
  /\ SvcInitState

TripsNext ==
  \/ \E value \in TripPriceTexts : TripHandlePriceChange("tripPrice", value)
  \/ \E value \in DesiredPriceTexts :
       TripHandlePriceChange("desiredPricePerKm", value)
  \/ CalculateProfitabilityInvalid
  \/ CalculateProfitabilityStart
  \/ \E routeDistance \in RouteDistances :
       CalculateProfitabilityRoute(routeDistance)
  \/ \E outcome \in {"empty", "throw"} : CalculateProfitabilityFailed(outcome)
  \/ TripHandleSaveStart
  \/ TripHandleSaveInserted
  \/ TripHandleSaveFailed
  \/ TripNotificationTimeout

SpecTrips == TripsInit /\ [][TripsNext]_vars

(***************************************************************************)
(* SpecTier: the analysis of every bounded pair of valid prices and route  *)
(* distance.  The initial states are those calculateProfitability leaves   *)
(* at its await: both addresses picked, valid prices, the request sent.    *)
(***************************************************************************)
TierDesiredPrices == {5, 10}

TierDistances == {100 * k : k \in 0..MaxRouteHm}

TierInit ==
  /\ user \in Users
  /\ AuthSettled
  /\ HistInitState
  /\ EarnInitState
  /\ \E p \in 1..MaxTripPrice, q \in TierDesiredPrices :
       /\ tripFormData =
            [origin |-> PlazaMayo.place_name,
             destination |-> Obelisco.place_name,
             desiredPricePerKm |-> IntText(q), tripPrice |-> IntText(p)]
       /\ calcReq = Some([tripPrice |-> parseFloat(IntText(p)),
                          desiredPricePerKm |-> parseFloat(IntText(q)),
                          originCoords |-> PlazaMayo.coordinates,
                          destinationCoords |-> Obelisco.coordinates])
  /\ originCoords = PlazaMayo.coordinates
  /\ destinationCoords = Obelisco.coordinates
  /\ originSuggestions = <<>>
  /\ destinationSuggestions = <<>>
  /\ showOriginSuggestions = FALSE
  /\ showDestinationSuggestions = FALSE
  /\ analysis = None
  /\ tripLoading = TRUE
  /\ tripNotification = None
  /\ tripTimers = 0
  /\ geoReqs = {}
  /\ routeRequests = 1
  /\ saveReq = None
  /\ trip_analysis = 0
  /\ tripEvent = "calculateProfitability"
  /\ SvcInitState

TierNext ==
  \E routeDistance \in TierDistances :
    CalculateProfitabilityRoute(routeDistance)

SpecTier == TierInit /\ [][TierNext]_vars

(***************************************************************************)
(* SpecServices: the service register of a signed-in user, from the mount  *)
(* of ServicesScreen (its effect has sent the first load).  Inserts are    *)
(* counted by svcNextId and stop at MaxServiceRows.                        *)
(***************************************************************************)
MileageTexts == {<<>>, <<"5", "0", "0", "0", "0">>}

ServiceKeys == {"vtv", "oil_change"}

\* the UTC day of new Date() and the host's time zone at a submission
SaveDays == {MkDate(2024, 3, 10)}
SaveZones == {BuenosAires}

ServicesInit ==
  /\ user \in Users
  /\ AuthSettled
  /\ HistInitState
  /\ EarnInitState
  /\ TripInitState
  /\ SvcStateInit
  /\ svcLoads = [NoLoads EXCEPT ![user] = 1]

ServicesNext ==
  \/ \E value \in MileageTexts : SvcMileageChange(value)
  \/ \E serviceKey \in ServiceKeys : toggleService(serviceKey)
  \/ SvcHandleSaveInvalid
  \/ \E today \in SaveDays, tz \in SaveZones :
       /\ svcNextId + Len(selectedServices) - 1 <= MaxServiceRows
       /\ SvcHandleSaveStart(today, tz)
  \/ \E ok \in BOOLEAN : SvcHandleSaveSelected(ok)
  \/ SvcHandleSaveWritten
  \/ SvcHandleSaveFailed
  \/ LoadUpcomingServicesReply
  \/ LoadUpcomingServicesError
  \/ \E serviceId \in 1..MaxServiceRows : DeleteServiceStart(serviceId)
  \/ \E serviceId \in 1..MaxServiceRows : DeleteServiceDone(serviceId)
  \/ \E serviceId \in 1..MaxServiceRows : DeleteServiceFailed(serviceId)
  \/ SvcNotificationTimeout

SpecServices == ServicesInit /\ [][ServicesNext]_vars

(***************************************************************************)
(* SpecNextService: calculateNextService applied, as handleSave applies    *)
(* it, to every service type, the bounded mileages, every day of the       *)
(* bounded years and both time zones.  The initial states are the filled   *)
(* form: a mileage typed and one service selected.                         *)
(***************************************************************************)
AllServiceKeys == {SERVICE_TYPES[i].key : i \in 1..Len(SERVICE_TYPES)}

ReferenceYears == 2024..(2024 + MaxYearSpan)

ReferenceDays ==
  {t \in [y : ReferenceYears, m : 1..12, d : 1..31] :
     t.d <= DaysInMonth(t.y, t.m)}

HostZones == {BuenosAires, NewYork}

NextServiceInit ==
  /\ user \in Users
  /\ AuthSettled
  /\ HistInitState
  /\ EarnInitState
  /\ TripInitState
  /\ currentMileage \in MileageTexts \ {<<>>}
  /\ \E serviceKey \in AllServiceKeys : selectedServices = <<serviceKey>>
  /\ upcomingServices = <<>>
  /\ svcLoading = FALSE
  /\ svcNotification = None
  /\ svcTimers = 0
  /\ service_records = {}
  /\ svcNextId = 1
  /\ svcSave = None
  /\ svcLoads = NoLoads
  /\ svcDeletes = {}

NextServiceNext ==
  \E today \in ReferenceDays, tz \in HostZones : SvcHandleSaveStart(today, tz)

SpecNextService == NextServiceInit /\ [][NextServiceNext]_vars

(***************************************************************************)
(* SpecDue: the list of ServicesScreen and its due badges.  The table      *)
(* holds what one submission of a km-rule service and vtv wrote (mileage   *)
(* 50000, host in Buenos Aires); the screen loads the list and the user    *)
(* types odometer readings.  isServiceDue is evaluated at every render, on *)
(* each listed row, the mileage input and the clock.                       *)
(***************************************************************************)
DueServiceDays == {MkDate(2024, 3, d) : d \in 9..12}

DueMileageTexts ==
  {<<>>, <<"0">>} \cup
  {IntText(k) : k \in {58999, 59000, 59200, 60000, 89000, 118999, 119000}}

\* the clock at a render: UTC day and hour
DueNows ==
  [date : {MkDate(2026, m, d) : m \in {2, 3}, d \in 1..28},
   hour : {0, 1, 23}]

\* the row handleSave wrote for serviceType
savedRow(id, u, mileage, today, tz, serviceType) ==
  serviceRow(id, saveLoopTurn(u, mileage, today, tz, <<serviceType>>)[1],
             NoNextService)

DueInit ==
  /\ user \in Users
  /\ AuthSettled
  /\ HistInitState
  /\ EarnInitState
  /\ TripInitState
  /\ currentMileage = <<>>
  /\ selectedServices = <<>>
  /\ upcomingServices = <<>>
  /\ svcLoading = FALSE
  /\ svcNotification = None
  /\ svcTimers = 0
  /\ \E serviceType \in AllServiceKeys \ {"vtv"}, today \in DueServiceDays :
       service_records =
         {savedRow(1, user, parseFloat(IntText(50000)), today, BuenosAires,
                   serviceType),
          savedRow(2, user, parseFloat(IntText(50000)), today, BuenosAires,
                   "vtv")}
  /\ svcNextId = 3
  /\ svcSave = None
  /\ svcLoads = [NoLoads EXCEPT ![user] = 1]
  /\ svcDeletes = {}

DueNext ==
  \/ LoadUpcomingServicesReply
  \/ \E value \in DueMileageTexts : SvcMileageChange(value)

SpecDue == DueInit /\ [][DueNext]_vars

(***************************************************************************)
(* SpecEarn: the form, the effect and handleSave of EarningsScreen, with   *)
(* or without a user in the session and with or without a history loader   *)
(* registered.                                                             *)
(***************************************************************************)
\* the texts typed into each input (type="number")
EarnTexts(name) ==
  CASE name = "totalEarnings" -> {<<>>, <<"1", "0">>}
    [] name = "tripsCompleted" -> {<<>>, <<"2">>, <<"2", ".", "5">>}
    [] name = "kilometersDriver" -> {<<>>, <<"0">>, <<"4">>}
    [] name = "hoursWorked" -> {<<>>, <<"2">>}
    [] name = "tips" -> {<<>>, <<"5">>}
    [] OTHER -> {<<>>}

EarnInit ==
  /\ user \in Users \cup {NoUser}
  /\ AuthSettled
  /\ HistInitState
  /\ earnFormData = EarnFormInit
  /\ calculations = CalculationsInit
  /\ earnEffectPending = TRUE
  /\ EarnSaveInit
  /\ refreshHistoryCallback \in {None, Some(HistoryRegisters)}
  /\ TripInitState
  /\ SvcInitState

EarnNext ==
  \/ CalculateValuesEffect
  \/ \E name \in EarnFields :
       \E value \in EarnTexts(name) : EarnHandleInputChange(name, value)
  \/ EarnHandleSaveNoUser
  \/ EarnHandleSaveInvalid
  \/ \E today \in SaveDays : EarnHandleSaveStart(today)
  \/ EarnHandleSaveInserted
  \/ EarnHandleSaveFailed
  \/ EarnNotificationTimeout

SpecEarn == EarnInit /\ [][EarnNext]_vars

(***************************************************************************)
(* SpecAuth: the session from the start of the application, the protected  *)
(* dashboard route, Login and sign-out.  The application starts on the     *)
(* dashboard route or on /login, with the session check in flight.         *)
(***************************************************************************)
LoginTexts(name) ==
  IF name = "email" THEN {<<>>, <<"a", "@", "b">>} ELSE {<<>>, <<"p", "w">>}

AuthInit ==
  /\ user = NoUser
  /\ session = None
  /\ authLoading = TRUE
  /\ authInit = TRUE
  /\ signInReq = None
  /\ signOutReqs = 0
  /\ route \in {"/dashboard", "/login"}
  /\ LoginInitState
  /\ RegInitState
  /\ HistInitState
  /\ authEvent = "mount"
  /\ EarnInitState
  /\ TripInitState
  /\ SvcInitState

AuthNext ==
  \/ \E outcome \in {"initSession", "initNoSession", "initError",
                     "initThrow"} : GetInitialSessionReply(outcome)
  \/ \E newSession \in {None} \cup {Some(u) : u \in Users} :
       AuthStateChange(newSession)
  \/ ProtectedRedirect
  \/ \E name \in {"email", "password"} :
       \E value \in LoginTexts(name) : LoginHandleInputChange(name, value)
  \/ LoginSubmitInvalid
  \/ LoginSubmitStart
  \/ \E outcome \in {"signInSession", "signInNoSession", "signInError",
                     "signInThrow"} : SignInReply(outcome)
  \/ SignOutStart
  \/ \E outcome \in {"signOutOk", "signOutError", "signOutThrow"} :
       SignOutReply(outcome)

SpecAuth == AuthInit /\ [][AuthNext]_vars

\* SpecAuth with the steps that need no user action taken eventually: the
\* replies of the auth provider and the redirect of ProtectedRoute
AuthAutomatic ==
  \/ \E outcome \in {"initSession", "initNoSession", "initError",
                     "initThrow"} : GetInitialSessionReply(outcome)
  \/ \E outcome \in {"signInSession", "signInNoSession", "signInError",
                     "signInThrow"} : SignInReply(outcome)
  \/ \E outcome \in {"signOutOk", "signOutError", "signOutThrow"} :
       SignOutReply(outcome)
  \/ ProtectedRedirect

LiveSpecAuth == SpecAuth /\ WF_vars(AuthAutomatic)

(***************************************************************************)
(* SpecRegister: the registration screen of a visitor who is not signed    *)
(* in, the signUp calls it makes and the links between it and Login        *)
(***************************************************************************)
RegTexts(name) ==
  IF name = "email" THEN {<<>>, <<"a", "@", "b">>}
  ELSE {<<>>, <<"1", "2", "3", "4", "5">>, <<"1", "2", "3", "4", "5", "6">>}

RegisterInit ==
  /\ user = NoUser
  /\ session = None
  /\ authLoading = FALSE
  /\ authInit = FALSE
  /\ signInReq = None
  /\ signOutReqs = 0
  /\ route = "/register"
  /\ LoginInitState
  /\ RegInitState
  /\ HistInitState
  /\ authEvent = "mount"
  /\ EarnInitState
  /\ TripInitState
  /\ SvcInitState

RegisterNext ==
  \/ GoRegister
  \/ GoLogin
  \/ \E name \in {"email", "password", "confirmPassword"} :
       \E value \in RegTexts(name) : RegHandleInputChange(name, value)
  \/ RegSubmitInvalid
  \/ RegSubmitStart
  \/ \E outcome \in {"signUpOk", "signUpError", "signUpThrow"} :
       SignUpReply(outcome)
  \/ RegErrorTimeout
  \/ RegSuccessTimeout
  \/ RegStaleTimeout

SpecRegister == RegisterInit /\ [][RegisterNext]_vars

(***************************************************************************)
(* SpecSession: every call of the session store (initial check, auth-state *)
(* change, signIn, signUp, signOut) with the forms filled in validly and   *)
(* the links between Login and Register left alone.                        *)
(* LiveSpecSession adds that each pending reply of the auth provider       *)
(* arrives.                                                                *)
(***************************************************************************)
SessionNext ==
  \/ \E outcome \in {"initSession", "initNoSession", "initError",
                     "initThrow"} : GetInitialSessionReply(outcome)
  \/ \E newSession \in {None} \cup {Some(u) : u \in Users} :
       AuthStateChange(newSession)
  \/ ProtectedRedirect
  \/ \E name \in {"email", "password"} :
       \E value \in LoginTexts(name) \ {<<>>} :
         LoginHandleInputChange(name, value)
  \/ LoginSubmitStart
  \/ \E outcome \in {"signInSession", "signInNoSession", "signInError",
                     "signInThrow"} : SignInReply(outcome)
  \/ SignOutStart
  \/ \E outcome \in {"signOutOk", "signOutError", "signOutThrow"} :
       SignOutReply(outcome)
  \/ \E name \in {"email", "password", "confirmPassword"} :
       \E value \in {t \in RegTexts(name) : Len(t) = 3 \/ Len(t) = 6} :
         RegHandleInputChange(name, value)
  \/ RegSubmitStart
  \/ \E outcome \in {"signUpOk", "signUpError", "signUpThrow"} :
       SignUpReply(outcome)
  \/ RegErrorTimeout
  \/ RegSuccessTimeout
  \/ RegStaleTimeout

\* the application is opened at any of its three routes
SessionInit ==
  /\ user = NoUser
  /\ session = None
  /\ authLoading = TRUE
  /\ authInit = TRUE
  /\ signInReq = None
  /\ signOutReqs = 0
  /\ route \in {"/dashboard", "/login", "/register"}
  /\ LoginInitState
  /\ RegInitState
  /\ HistInitState
  /\ authEvent = "mount"
  /\ EarnInitState
  /\ TripInitState
  /\ SvcInitState

SpecSession == SessionInit /\ [][SessionNext]_vars

LiveSpecSession ==
  /\ SpecSession
  /\ WF_vars(\E outcome \in {"initSession", "initNoSession", "initError",
                             "initThrow"} : GetInitialSessionReply(outcome))
  /\ WF_vars(\E outcome \in {"signInSession", "signInNoSession",
                             "signInError", "signInThrow"} :
               SignInReply(outcome))
  /\ WF_vars(\E outcome \in {"signUpOk", "signUpError", "signUpThrow"} :
               SignUpReply(outcome))
  /\ WF_vars(\E outcome \in {"signOutOk", "signOutError", "signOutThrow"} :
               SignOutReply(outcome))

(***************************************************************************)
(* SpecHistory: the history screen as it is mounted for a signed-in user   *)
(* whose table holds up to MaxHistRows rows, while the save of an earnings *)
(* form submitted just before is still in flight                           *)
(***************************************************************************)
\* a filled-in earnings form
HistForm(total, fuel, trips) ==
  [EarnFormInit EXCEPT !.totalEarnings = IntText(total),
                       !.fuelCost = IntText(fuel),
                       !.tripsCompleted = IntText(trips),
                       !.kilometersDriver = <<"1">>,
                       !.hoursWorked = <<"1">>]

\* the data handleSave sends for such a form
HistData(day, total, fuel, trips) ==
  earningsData("u1", MkDate(2024, 3, day), HistForm(total, fuel, trips),
               calculateValues(HistForm(total, fuel, trips)))

\* rows saved earlier: two of the same day, two of the same net earnings
HistoryRows ==
  {[id |-> 1] @@ HistData(9, 10, 5, 1),
   [id |-> 2] @@ HistData(8, 20, 0, 2),
   [id |-> 3] @@ HistData(9, 20, 0, 3)}

SearchTexts == {<<>>, <<"1", "0">>, <<"5">>, <<"X">>}

SortFields == {"date", "net_earnings", "trips_completed"}

HistoryInit ==
  /\ user \in Users
  /\ AuthSettled
  /\ earnFormData = HistForm(20, 5, 1)
  /\ calculations = calculateValues(earnFormData)
  /\ earnEffectPending = FALSE
  /\ earnLoading = TRUE
  /\ earnNotification = None
  /\ earnTimers = 0
  /\ earnSave = Some(HistData(10, 20, 5, 1))
  /\ earnEvent = "handleSave"
  /\ earnings_records \in
       {rows \in SUBSET HistoryRows : Cardinality(rows) <= MaxHistRows}
  /\ refreshHistoryCallback = Some(HistoryRegisters)
  /\ histLoads = [NoLoads EXCEPT ![user] = 1]
  /\ records = <<>>
  /\ filteredRecords = <<>>
  /\ histEffectPending = TRUE
  /\ histLoading = TRUE
  /\ searchQuery = <<>>
  /\ sortField = "date"
  /\ sortOrder = "desc"
  /\ selectedRecord = None
  /\ histNotification = None
  /\ histTimers = 0
  /\ histDeletes = {}
  /\ histEvent = "mount"
  /\ TripInitState
  /\ SvcInitState

\* the list is searched and sorted
HistoryNext ==
  \/ FilterAndSortRecordsEffect
  \/ LoadEarningsHistoryReply
  \/ LoadEarningsHistoryError
  \/ \E value \in SearchTexts : SetSearchQuery(value)
  \/ \E field \in SortFields : handleSort(field)
  \/ HistNotificationTimeout

SpecHistory == HistoryInit /\ [][HistoryNext]_vars

\* SpecLifecycle: records are inserted by the save in flight and deleted
\* from the list
LifecycleNext ==
  \/ FilterAndSortRecordsEffect
  \/ LoadEarningsHistoryReply
  \/ LoadEarningsHistoryError
  \/ \E recordId \in 1..(MaxHistRows + 2) : ToggleSelectedRecord(recordId)
  \/ \E recordId \in 1..(MaxHistRows + 2), confirmed \in BOOLEAN :
       DeleteRecordAsk(recordId, confirmed)
  \/ \E recordId \in 1..(MaxHistRows + 2) : DeleteRecordDone(recordId)
  \/ \E recordId \in 1..(MaxHistRows + 2) : DeleteRecordFailed(recordId)
  \/ HistNotificationTimeout
  \/ EarnHandleSaveInserted
  \/ EarnHandleSaveFailed

SpecLifecycle == HistoryInit /\ [][LifecycleNext]_vars

(***************************************************************************)
(* SpecOwner: the services screen of a signed-in user while the session    *)
(* changes under it.  The table holds a row of each of two users.  An      *)
(* auth-state change is followed by a render: with a user the effect on    *)
(* [user] of the mounted ServicesScreen loads the services of the new user *)
(* object; without one ProtectedRoute unmounts the dashboard, and what is  *)
(* still in flight for the unmounted screen can no longer set its state.   *)
(***************************************************************************)
\* the onAuthStateChange callback and the render of the dashboard after it
AuthStateChangeOnServices(newSession) ==
  /\ route = "/dashboard"
  /\ authEvent' = "authStateChange"
  /\ session' = newSession
  /\ user' = IF newSession = None THEN NoUser ELSE newSession[1]
  /\ authLoading' = FALSE
  /\ IF newSession = None
     THEN /\ upcomingServices' = <<>>
          /\ svcLoads' = NoLoads
     ELSE /\ upcomingServices' = upcomingServices
          /\ svcLoads' =
               [svcLoads EXCEPT ![newSession[1]] = Min(@ + 1, MaxSvcLoads)]
  /\ UNCHANGED <<authInit, signInReq, signOutReqs, route, loginFormData,
                 loginLoading, loginError, regVars, earnVars, tripVars,
                 histVars, currentMileage, selectedServices, svcLoading,
                 svcNotification, svcTimers, service_records, svcNextId,
                 svcSave, svcDeletes>>

OwnerInit ==
  /\ user \in AllUsers
  /\ AuthSettled
  /\ HistInitState
  /\ EarnInitState
  /\ TripInitState
  /\ currentMileage = IntText(50000)
  /\ selectedServices = <<"vtv">>
  /\ upcomingServices = <<>>
  /\ svcLoading = FALSE
  /\ svcNotification = None
  /\ svcTimers = 0
  /\ service_records =
       {savedRow(1, "u1", parseFloat(IntText(50000)), MkDate(2024, 3, 1),
                 BuenosAires, "oil_change"),
        savedRow(2, "u2", parseFloat(IntText(60000)), MkDate(2024, 3, 1),
                 BuenosAires, "oil_change")}
  /\ svcNextId = 3
  /\ svcSave = None
  /\ svcLoads = [NoLoads EXCEPT ![user] = 1]
  /\ svcDeletes = {}

OwnerNext ==
  \/ \E newSession \in {None} \cup {Some(u) : u \in AllUsers} :
       AuthStateChangeOnServices(newSession)
  \/ ProtectedRedirect
  \/ LoadUpcomingServicesReply
  \/ LoadUpcomingServicesError
  \/ \E today \in SaveDays, tz \in SaveZones :
       route = "/dashboard" /\ SvcHandleSaveStart(today, tz)
  \/ \E ok \in BOOLEAN : SvcHandleSaveSelected(ok)
  \/ SvcHandleSaveWritten
  \/ SvcHandleSaveFailed
  \/ SvcNotificationTimeout

SpecOwner == OwnerInit /\ [][OwnerNext]_vars

(***************************************************************************)
(* SpecAddress: the two address inputs of the trip screen, the geocoding   *)
(* requests they send and the choice of a suggestion.  The geocoder        *)
(* answers a query with the same features whenever it is asked.            *)
(***************************************************************************)
AddressTexts ==
  {<<>>, <<"P", "l">>, <<"P", "l", "a">>, <<"O", "b", "e">>}

\* the features of the geocoder's response to a query
geocode(query) ==
  CASE query = <<"P", "l", "a">> -> <<PlazaMayo>>
    [] query = <<"O", "b", "e">> -> <<Obelisco>>
    [] OTHER -> <<>>

AddressInit ==
  /\ user \in Users
  /\ AuthSettled
  /\ HistInitState
  /\ EarnInitState
  /\ TripInitState
  /\ SvcInitState

AddressNext ==
  \/ \E name \in {"origin", "destination"}, value \in AddressTexts :
       TripHandleAddressChange(name, value)
  \/ \E req \in geoReqs : FetchSuggestionsReply(req, geocode(req.query))
  \/ \E req \in geoReqs : FetchSuggestionsError(req)
  \/ \E suggestion \in {PlazaMayo, Obelisco}, isOrigin \in BOOLEAN :
       selectSuggestion(suggestion, isOrigin)

SpecAddress == AddressInit /\ [][AddressNext]_vars

(***************************************************************************)
(* Claims about the earnings calculator (checked under SpecCalc)           *)
(***************************************************************************)
\* the number a field stands for: its parsed value, 0 when blank
FieldValue(f) == OrZero(parseFloat(earnFormData[f]))

AllInputsNonNegative == \A f \in EarnFields : Ge(FieldValue(f), Zero)

\* C1: for non-negative inputs, once calculateValues has run,
\* gross_earnings = total_earnings + tips + extras,
\* total_expenses = fuel_cost + other_expenses and
\* net_earnings = gross_earnings - total_expenses, exactly.
C1_GrossNetExact ==
  (~earnEffectPending /\ AllInputsNonNegative) =>
    /\ calculations.grossEarnings =
         Add(Add(FieldValue("totalEarnings"), FieldValue("tips")),
             FieldValue("extras"))
    /\ calculations.totalExpenses =
         Add(FieldValue("fuelCost"), FieldValue("otherExpenses"))
    /\ calculations.netEarnings =
         Sub(calculations.grossEarnings, calculations.totalExpenses)
    /\ Add(calculations.netEarnings, calculations.totalExpenses) =
         calculations.grossEarnings

\* C1 witness: a computed result with extras and fuel cost present whose
\* net earnings are negative
C1_Witness ==
  /\ ~earnEffectPending
  /\ AllInputsNonNegative
  /\ Gt(FieldValue("extras"), Zero)
  /\ Gt(FieldValue("fuelCost"), Zero)
  /\ Gt(calculations.grossEarnings, Zero)
  /\ Lt(calculations.netEarnings, Zero)

\* rate r of amount a over the denominator text t: a / t when t > 0, and 0
\* when t is <= 0 or blank; r is an ordinary number in both cases
RateOk(r, a, t) ==
  /\ IsFinite(r)
  /\ IF Gt(parseFloat(t), Zero) THEN Mul(r, parseFloat(t)) = a ELSE r = Zero

\* C2: each of the six rates is amount / denominator when the denominator
\* is > 0 and 0 when it is <= 0 or blank; no rate is Infinity or NaN.
C2_RatesGuarded ==
  ~earnEffectPending =>
    /\ RateOk(calculations.grossPerKm, calculations.grossEarnings,
              earnFormData.kilometersDriver)
    /\ RateOk(calculations.grossPerHour, calculations.grossEarnings,
              earnFormData.hoursWorked)
    /\ RateOk(calculations.grossPerTrip, calculations.grossEarnings,
              earnFormData.tripsCompleted)
    /\ RateOk(calculations.netPerKm, calculations.netEarnings,
              earnFormData.kilometersDriver)
    /\ RateOk(calculations.netPerHour, calculations.netEarnings,
              earnFormData.hoursWorked)
    /\ RateOk(calculations.netPerTrip, calculations.netEarnings,
              earnFormData.tripsCompleted)

\* C2 witness: one result with a positive, a zero and a blank denominator,
\* a non-zero rate for the first and non-zero amounts for the others
C2_Witness ==
  /\ ~earnEffectPending
  /\ Gt(parseFloat(earnFormData.kilometersDriver), Zero)
  /\ parseFloat(earnFormData.hoursWorked) = Zero
  /\ IsNaN(parseFloat(earnFormData.tripsCompleted))
  /\ Gt(calculations.grossPerKm, Zero)
  /\ Lt(calculations.netPerKm, Zero)
  /\ calculations.grossPerHour = Zero
  /\ calculations.netPerTrip = Zero

(***************************************************************************)
(* Claims about the profitability tiers (checked under SpecTier)           *)
(***************************************************************************)
Ten == Int2Num(10)
MinusTen == Int2Num(-10)

C4_BoundariesMarginal ==
  analysis # None =>
    (analysis[1].difference \in {Ten, MinusTen}
       => analysis[1].profitability = "poco_rentable")

\* C5: with a primary route of distance 0 the actual price per km is 0, and
\* neither it nor percent_difference is ever Infinity or NaN.
C5_ZeroDistanceRate ==
  analysis # None =>
    /\ IsFinite(analysis[1].actualPricePerKm)
    /\ IsFinite(analysis[1].difference)
    /\ analysis[1].distance = Zero => analysis[1].actualPricePerKm = Zero

(***************************************************************************)
(* Claims about calculateProfitability and handleSave (checked under       *)
(* SpecTrips)                                                              *)
(***************************************************************************)
\* a price text that stands for a number > 0
PositivePrice(text) == Gt(parseFloat(text), Zero)

\* the form calculateProfitability must reject
InvalidTripInput ==
  \/ originCoords = None
  \/ destinationCoords = None
  \/ ~PositivePrice(tripFormData.tripPrice)
  \/ ~PositivePrice(tripFormData.desiredPricePerKm)

\* C6: calculateProfitability on an invalid form (a coordinate pair missing,
\* or a price blank or <= 0) shows an error, sends no routing request, does
\* not enter the loading state and leaves the analysis unchanged.
C6_FailFast ==
  [][(tripEvent' = "calculateProfitability" /\ InvalidTripInput) =>
       /\ tripNotification' # None
       /\ tripNotification'[1].type = "error"
       /\ calcReq' = None
       /\ routeRequests' = 0
       /\ tripLoading' = FALSE
       /\ analysis' = analysis]_vars

\* C6 witness: a rejected calculateProfitability (both addresses picked, a
\* trip price of 0) that left an earlier analysis in place
C6_Witness ==
  /\ tripEvent = "calculateProfitability"
  /\ originCoords # None
  /\ destinationCoords # None
  /\ parseFloat(tripFormData.tripPrice) = Zero
  /\ tripNotification # None
  /\ analysis # None
  /\ calcReq = None
  /\ routeRequests = 0

\* C7: when the routing request throws or returns no route, one request was
\* made and none follows, an error notification is shown, the analysis is
\* the one held before the attempt and loading is false.
C7_LookupFailureTerminal ==
  [][(tripEvent' \in {"routeEmpty", "routeThrow"}) =>
       /\ routeRequests = 1
       /\ routeRequests' = 1
       /\ calcReq' = None
       /\ tripNotification' # None
       /\ tripNotification'[1].type = "error"
       /\ analysis' = analysis
       /\ tripLoading' = FALSE]_vars

\* C7 witness: a failed lookup reported while an earlier analysis is held
C7_Witness ==
  /\ tripEvent \in {"routeEmpty", "routeThrow"}
  /\ analysis # None
  /\ tripNotification # None
  /\ ~tripLoading
  /\ routeRequests = 1

\* a trip_analysis row whose derived fields follow from its stored fields
RowConsistent(row) ==
  LET d == Mul(Div(Sub(row.actual_price_per_km, row.desired_price_per_km),
                   row.desired_price_per_km), Int2Num(100))
  IN /\ row.actual_price_per_km = Div(row.trip_price, row.distance_km)
     /\ row.profitability =
          (IF Ge(d, Ten) THEN "rentable"
           ELSE IF Ge(d, MinusTen) THEN "poco_rentable" ELSE "no_rentable")

\* C8: every row handleSave inserts has actual_price_per_km = trip_price /
\* distance_km and the tier of the percent difference between that value and
\* its desired_price_per_km.
C8_InsertedRowConsistent ==
  [][(tripEvent' = "saveInserted") => RowConsistent(saveReq[1])]_vars

(***************************************************************************)
(* Claims about the service register (checked under SpecServices and       *)
(* SpecNextService)                                                        *)
(***************************************************************************)

\* C9: after any sequence of service submissions and deletions the table
\* holds at most one record per (user, service_type): a submission for a
\* type that already has a record updates it and inserts no second one.
C9_OneRecordPerType ==
  \A r1, r2 \in service_records :
    (r1.user_id = r2.user_id /\ r1.service_type = r2.service_type)
      => r1.id = r2.id

\* a calendar date advanced by a number of years (29 February runs into
\* 1 March when the year reached is not a leap year)
AdvancedByYears(t, years) ==
  IF t.m = 2 /\ t.d = 29 /\ ~IsLeapYear(t.y + years)
  THEN MkDate(t.y + years, 3, 1)
  ELSE MkDate(t.y + years, t.m, t.d)

DueDate(t) == [next_service_date |-> Some(t), next_service_mileage |-> None]
DueMileage(n) == [next_service_date |-> None, next_service_mileage |-> Some(n)]

\* C10: the next-due value handleSave takes from calculateNextService
\* depends on the type, the reference date and the mileage only: for vtv it
\* is the reference date advanced by 2 years, for oil_change, timing_belt
\* and brakes the mileage plus 10000, 70000 and 40000.
C10_NextServiceRule ==
  svcSave # None =>
    LET p == svcSave[1]
        serviceType == Head(p.todo)
    IN /\ serviceType = "vtv" =>
            p.nextService = DueDate(AdvancedByYears(p.currentDate, 2))
       /\ serviceType = "oil_change" =>
            p.nextService = DueMileage(Add(p.mileage, Int2Num(10000)))
       /\ serviceType = "timing_belt" =>
            p.nextService = DueMileage(Add(p.mileage, Int2Num(70000)))
       /\ serviceType = "brakes" =>
            p.nextService = DueMileage(Add(p.mileage, Int2Num(40000)))

\* the rule kind the fixed set gives a service type
ClaimedRule(serviceType) ==
  IF serviceType = "vtv" THEN "years"
  ELSE IF serviceType \in {"oil_change", "timing_belt", "brakes"} THEN "km"
  ELSE "none"

\* a next-due value (or a row) holds the field of the rule kind and no other
MatchesRule(n, rule) ==
  /\ (n.next_service_date # None) <=> (rule = "years")
  /\ (n.next_service_mileage # None) <=> (rule = "km")

\* C11: for every service type of the fixed set calculateNextService gives
\* exactly one of next_service_date / next_service_mileage, the one of the
\* type's rule kind; for a type outside the set it gives neither; and every
\* row of service_records holds exactly one of the two, of its type's kind.
C11_ExactlyOneNextDue ==
  /\ \A r \in service_records :
       /\ ClaimedRule(r.service_type) # "none"
       /\ MatchesRule(r, ClaimedRule(r.service_type))
  /\ svcSave # None =>
       \A serviceType \in AllServiceKeys \cup {"alignment"} :
         MatchesRule(calculateNextService(serviceType, svcSave[1].mileage,
                                          svcSave[1].currentDate,
                                          svcSave[1].tz),
                     ClaimedRule(serviceType))

\* handleSave is about to write over the existing row of the type
C11_Witness ==
  /\ svcSave # None
  /\ svcSave[1].write = "update"
  /\ \E r \in service_records : r.id = svcSave[1].target

(***************************************************************************)
(* Claims about the due badges (checked under SpecDue)                     *)
(***************************************************************************)
ListedRows == SeqToSet(upcomingServices)

\* C12: for a listed mileage-based record isServiceDue is true exactly when
\* an odometer reading is in the mileage input and is at least
\* next_service_mileage - 1000.
C12_MileageDue ==
  \A service \in ListedRows, now \in DueNows :
    (service.next_service_date = None /\ service.next_service_mileage # None)
      => (isServiceDue(service, currentMileage, now)
            <=> /\ ~Blank(currentMileage)
                /\ Ge(parseFloat(currentMileage),
                      Sub(service.next_service_mileage[1], Int2Num(1000))))

\* next 60000 and a reading of 59000, the last reading that is due
C12_Witness ==
  /\ currentMileage = IntText(59000)
  /\ \E service \in ListedRows, now \in DueNows :
       /\ service.next_service_mileage = Some(Int2Num(60000))
       /\ isServiceDue(service, currentMileage, now)

\* hours from the instant now to midnight UTC of day t
HoursUntil(t, now) ==
  24 * (DayNumber(t) - DayNumber(now.date)) - now.hour

\* C13: for a listed date-based record isServiceDue is true exactly when
\* next_service_date is no more than 30 days after now (the days from now to
\* the date, rounded up, are <= 30), dates in the past included.
C13_DateDue ==
  \A service \in ListedRows, now \in DueNows :
    service.next_service_date # None
      => (isServiceDue(service, currentMileage, now)
            <=> HoursUntil(service.next_service_date[1], now) <= 30 * 24)

\* a vtv row due on 2026-03-10 is listed: at 01:00 on 7 February it is 30
\* days and 23 hours away
C13_Witness ==
  \E service \in ListedRows :
    /\ service.next_service_date = Some(MkDate(2026, 3, 10))
    /\ ~isServiceDue(service, currentMileage,
                     [date |-> MkDate(2026, 2, 7), hour |-> 1])
    /\ isServiceDue(service, currentMileage,
                    [date |-> MkDate(2026, 2, 8), hour |-> 0])
    /\ isServiceDue(service, currentMileage,
                    [date |-> MkDate(2026, 3, 20), hour |-> 0])

(***************************************************************************)
(* Claims about the earnings form and handleSave (checked under SpecEarn)  *)
(***************************************************************************)

\* C14: in every state where no recomputation is pending the nine derived
\* values are those of the calculator on the current form data, whatever
\* inputs were changed and whether or not the form was submitted.
C14_DerivedValuesCurrent ==
  ~earnEffectPending => calculations = calculateValues(earnFormData)

\* inputs were typed, the effect has run and nothing was submitted
C14_Witness ==
  /\ ~earnEffectPending
  /\ earnEvent = "effect"
  /\ earnFormData.totalEarnings = <<"1", "0">>
  /\ earnFormData.tips = <<"5">>
  /\ earnFormData.kilometersDriver = <<"4">>
  /\ calculations.grossPerKm = Norm(15, 4)
  /\ earnings_records = {}
  /\ earnSave = None

\* the stored rate the claim gives: amount / denominator, 0 for denominator 0
StoredRate(amount, denominator) ==
  IF denominator = Zero THEN Zero ELSE Div(amount, denominator)

EarnRowConsistent(r) ==
  /\ r.gross_earnings = Add(Add(r.total_earnings, r.tips), r.extras)
  /\ r.total_expenses = Add(r.fuel_cost, r.other_expenses)
  /\ r.net_earnings = Sub(r.gross_earnings, r.total_expenses)
  /\ r.gross_per_km = StoredRate(r.gross_earnings, r.kilometers_driven)
  /\ r.gross_per_hour = StoredRate(r.gross_earnings, r.hours_worked)
  /\ r.gross_per_trip = StoredRate(r.gross_earnings, r.trips_completed)
  /\ r.net_per_km = StoredRate(r.net_earnings, r.kilometers_driven)
  /\ r.net_per_hour = StoredRate(r.net_earnings, r.hours_worked)
  /\ r.net_per_trip = StoredRate(r.net_earnings, r.trips_completed)

\* C15: every row handleSave inserts into earnings_records satisfies the
\* derived-field definitions over its own stored raw fields (gross, expenses,
\* net, and each rate = stored amount / stored denominator, 0 when the
\* stored denominator is 0).
C15_InsertedEarningsConsistent ==
  [][(earnings_records' # earnings_records) => EarnRowConsistent(earnSave[1])
    ]_vars

\* an invalid submission: no user, or a required field blank
EarnSubmissionInvalid ==
  \/ user = NoUser
  \/ \E field \in {"totalEarnings", "tripsCompleted", "kilometersDriver",
                   "hoursWorked"} : earnFormData[field] = <<>>

\* C16: a handleSave with a required field blank shows the validation error,
\* sends no insert, leaves loading false and the form data unchanged; without
\* a user no insert is sent either.
C16_EarnValidation ==
  [][(earnEvent' = "handleSave" /\ EarnSubmissionInvalid)
       => /\ earnSave' = None
          /\ earnLoading' = FALSE
          /\ earnFormData' = earnFormData
          /\ earnings_records' = earnings_records
          /\ user # NoUser
               => earnNotification' = Some(Notice("error", "completar"))
    ]_vars

\* handleSave has just rejected a form with the total filled in and the
\* hours blank
C16_Witness ==
  /\ earnEvent = "handleSave"
  /\ user # NoUser
  /\ earnFormData.totalEarnings # <<>>
  /\ earnFormData.hoursWorked = <<>>
  /\ earnNotification = Some(Notice("error", "completar"))
  /\ ~earnLoading

(***************************************************************************)
(* Claims about the session, the protected route and failures (checked     *)
(* under SpecAuth, LiveSpecAuth and SpecServices)                          *)
(***************************************************************************)

\* C17: the dashboard content is rendered only with loading = false and a
\* user; on the dashboard route a loading session shows the spinner, and
\* loading = false without a user redirects to /login.
C17_ProtectedGate ==
  /\ View = "children" => (~authLoading /\ user # NoUser)
  /\ (route = "/dashboard" /\ authLoading) => View = "spinner"
  /\ (route = "/dashboard" /\ ~authLoading /\ user = NoUser)
       => View = "redirect"

\* a sign-out is in flight from the dashboard: the user is still set and the
\* spinner is shown
C17_Witness ==
  /\ route = "/dashboard"
  /\ signOutReqs > 0
  /\ user # NoUser
  /\ authLoading
  /\ View = "spinner"

\* the steps at which an external auth call is found to have failed
AuthFailureEvents ==
  {"initError", "initThrow", "signInError", "signInThrow", "signOutError",
   "signOutThrow"}

\* an error message is on the screen
VisibleError ==
  \/ View = "/login" /\ loginError # ""
  \/ /\ View = "children"
     /\ \E n \in {earnNotification, tripNotification, svcNotification} :
          n # None /\ n[1].type = "error"

\* C18: every failure of an external call is caught by the handler that made
\* the call and shown to the user as an error message; none is dropped
\* silently.  (Here: the calls to the auth provider.)
C18_FailuresReported ==
  [][(authEvent' \in AuthFailureEvents) => VisibleError']_vars

\* C19: for every kind of action that makes a network call at most one
\* request is in flight at any time (here: deleting a record, looking up
\* address suggestions; each save and the calculation hold one request by
\* their loading flag).
C19_OneRequestPerAction ==
  /\ Cardinality(svcDeletes) <= 1
  /\ Cardinality(geoReqs) <= 1

\* C20: every failure message shown to the user, the one of Login included,
\* is dismissed eventually without any user action.
C20_FailureDismissed == (loginError # "") ~> (loginError = "")

(***************************************************************************)
(* Claims about the address inputs of the trip screen (checked under       *)
(* SpecAddress)                                                            *)
(***************************************************************************)

\* the list shown under an address input agrees with the input's text
SuggestionsCurrent(text, suggestions, shown) ==
  /\ Len(text) < 3 => (suggestions = <<>> /\ ~shown)
  /\ (Len(text) >= 3 /\ shown) => suggestions = geocode(text)

\* C27: once no address lookup is in flight, the suggestion list of the
\* origin (destination) field is the response to the field's current text,
\* and it is empty and hidden when that text has fewer than 3 characters,
\* whatever the order in which the responses arrived.
C27_SuggestionsMatchText ==
  geoReqs = {} =>
    /\ SuggestionsCurrent(tripFormData.origin, originSuggestions,
                          showOriginSuggestions)
    /\ SuggestionsCurrent(tripFormData.destination, destinationSuggestions,
                          showDestinationSuggestions)

\* the place name of the feature the coordinates belong to
PlaceNames(coords) ==
  {f.place_name : f \in {g \in {PlazaMayo, Obelisco} : g.coordinates = coords}}

\* C28: whenever the trip screen holds origin (destination) coordinates,
\* the origin (destination) text of the form is the place name of the
\* suggestion the coordinates came from.
C28_CoordsMatchText ==
  /\ originCoords # None => tripFormData.origin \in PlaceNames(originCoords)
  /\ destinationCoords # None =>
       tripFormData.destination \in PlaceNames(destinationCoords)

(***************************************************************************)
(* Claims about the save of the services screen (checked under             *)
(* SpecServices)                                                           *)
(***************************************************************************)

\* the step of handleSave that ends it in its catch
SvcSaveFails ==
  /\ svcSave # None
  /\ svcSave' = None
  /\ svcNotification' = Some(Notice("error", "no_guardados"))

\* the step of handleSave that ends it after the last write
SvcSaveSucceeds ==
  /\ svcSave # None
  /\ svcSave' = None
  /\ svcNotification' # Some(Notice("error", "no_guardados"))

\* a write of handleSave was done and the loop goes on
SvcSaveGoesOn ==
  /\ svcSave # None
  /\ svcSave' # None
  /\ svcSave[1].phase = "write"
  /\ svcSave'[1].phase = "select"

\* the write handleSave was waiting for was for the first service still to
\* do (an update changes nothing when its row was deleted meanwhile)
HeadWritten ==
  svcSave[1].write = "insert" =>
    \E r \in service_records' :
      /\ r.service_type = Head(svcSave[1].todo)
      /\ r.service_date = svcSave[1].currentDate
      /\ r.id = svcNextId

FormKept ==
  /\ currentMileage' = currentMileage
  /\ selectedServices' = selectedServices

\* C29: handleSave writes the selected services one by one in selection
\* order; when a write fails the rows written before stay, the remaining
\* services are not attempted, an error notification is shown, the form is
\* not cleared and loading is false; only when every write succeeded are
\* the form cleared and the list reloaded.
C29_SaveStopsAtFailure ==
  [][
      /\ SvcSaveFails =>
          /\ service_records' = service_records
          /\ FormKept
          /\ ~svcLoading'
          /\ svcLoads' = svcLoads
      /\ SvcSaveGoesOn =>
          /\ svcSave'[1].todo = Tail(svcSave[1].todo)
          /\ HeadWritten
          /\ FormKept
          /\ svcLoading'
      /\ SvcSaveSucceeds =>
          /\ Len(svcSave[1].todo) = 1
          /\ svcSave[1].phase = "write"
          /\ HeadWritten
          /\ svcNotification' = Some(Notice("success", "registrados"))
          /\ currentMileage' = <<>>
          /\ selectedServices' = <<>>
          /\ svcLoads'[user] > 0
          /\ ~svcLoading'
    ]_vars

\* the first of two selected services was written, the second failed
C29_Witness ==
  /\ svcSave = None
  /\ svcNotification = Some(Notice("error", "no_guardados"))
  /\ Len(selectedServices) = 2
  /\ ~Blank(currentMileage)
  /\ ~svcLoading
  /\ {r.service_type : r \in service_records} = {selectedServices[1]}

(***************************************************************************)
(* Claims about signOut, the registration and the loading flag (checked    *)
(* under SpecAuth and LiveSpecAuth)                                        *)
(***************************************************************************)

\* C23: signOut either succeeds, after which user and session are both
\* null, or fails (provider error or exception) and leaves user and session
\* as they were; in both cases loading is false when it completes.
C23_SignOutOutcome ==
  [][
      /\ authEvent' = "signOutOk" =>
           (user' = NoUser /\ session' = None /\ ~authLoading')
      /\ authEvent' \in {"signOutError", "signOutThrow"} =>
           (user' = user /\ session' = session /\ ~authLoading')
    ]_vars

\* a sign-out failed and the user is still signed in
C23_Witness ==
  /\ authEvent \in {"signOutError", "signOutThrow"}
  /\ user # NoUser
  /\ session # None
  /\ ~authLoading

\* the form passes the three checks the claim names
RegFormValid ==
  /\ regFormData.email # <<>>
  /\ regFormData.password # <<>>
  /\ regFormData.confirmPassword # <<>>
  /\ regFormData.password = regFormData.confirmPassword
  /\ Len(regFormData.password) >= 6

\* C24: the registration calls signUp only when email, password and
\* confirmation are non-empty, password equals confirmation and has at
\* least 6 characters; a failed check shows an error and sends no request;
\* navigate('/login') comes only from a signUp that returned no error: a
\* signUp that returned an error sets no navigating timer.
C24_RegistrationGate ==
  [][
      /\ (signUpReq' # None /\ signUpReq = None) => RegFormValid
      /\ (authEvent' \in {"regInvalid", "regSubmit"} /\ ~RegFormValid) =>
           /\ regNotification' # None
           /\ regNotification'[1].type = "error"
           /\ signUpReq' = signUpReq
           /\ route' = route
      /\ authEvent' \in {"signUpError", "signUpThrow"} =>
           /\ regTimers'.success = regTimers.success
           /\ regTimers'.stale = regTimers.stale
           /\ route' = route
      /\ (authEvent' = "regNavigate" \/ route' # route) =>
           (authEvent' = "goRegister" \/ authEvent' = "goLogin" \/ signedUp)
    ]_vars

\* the timer of a successful registration has navigated to /login
C24_Witness ==
  /\ authEvent = "regNavigate"
  /\ route = "/login"
  /\ signedUp
  /\ RegFormValid

\* the steps at which the initial check settles, an auth-state change is
\* delivered or a signIn, signUp or signOut call completes
LoadingSettles ==
  {"initSession", "initNoSession", "initError", "initThrow",
   "authStateChange", "signInSession", "signInNoSession", "signInError",
   "signInThrow", "signUpOk", "signUpError", "signUpThrow", "signOutOk",
   "signOutError", "signOutThrow"}

\* C30: loading starts true; it is false once the initial session check
\* settles or an auth-state change is delivered and after every signIn,
\* signUp or signOut call completes, whatever the outcome; so loading never
\* stays true for ever.
C30_LoadingSettles ==
  /\ authLoading = TRUE
  /\ [][authEvent' \in LoadingSettles => ~authLoading']_vars
  /\ authLoading ~> ~authLoading

\* a signUp failed and loading is false again
C30_Witness ==
  /\ authEvent \in {"signUpError", "signUpThrow", "signInThrow", "initThrow"}
  /\ ~authLoading

(***************************************************************************)
(* Claims about the earnings history (checked under SpecEarn and           *)
(* SpecHistory)                                                            *)
(***************************************************************************)

\* C26: when a history screen has registered its loader through
\* setRefreshHistory, the refreshHistory call made after a successful
\* earnings save invokes the loader, so the history is fetched again; when
\* nothing is registered refreshHistory does nothing.
C26_RefreshInvokesLoader ==
  [][earnEvent' = "saveInserted" =>
       IF refreshHistoryCallback # None /\ user # NoUser
       THEN histLoads'[user] > 0
       ELSE histLoads' = histLoads]_vars

\* the record passes the filter the claim gives for the search query
ClaimedMatch(record) ==
  \/ searchQuery = <<>>
  \/ includes(DateText(record.date), searchQuery)
  \/ includes(NumText(record.net_earnings), searchQuery)
  \/ includes(NumText(record.gross_earnings), searchQuery)

\* q is in the selected order
InSelectedOrder(q) ==
  \A i, j \in 1..Len(q) :
    i < j =>
      IF sortOrder = "asc"
      THEN Le(sortValue(q[i], sortField), sortValue(q[j], sortField))
      ELSE Ge(sortValue(q[i], sortField), sortValue(q[j], sortField))

\* C25: the earnings history list is the filtered and sorted image of the
\* loaded records: exactly the loaded records whose date, net_earnings or
\* gross_earnings text contains the search query (all when it is empty),
\* ordered by the sort field in the selected direction; handleSort on the
\* current field flips the direction, on another field selects it with
\* descending order.
C25_FilteredSortedImage ==
  /\ [](~histEffectPending =>
          /\ SeqToSet(filteredRecords) =
               {r \in SeqToSet(records) : ClaimedMatch(r)}
          /\ Len(filteredRecords) = Cardinality(SeqToSet(filteredRecords))
          /\ InSelectedOrder(filteredRecords))
  /\ [][histEvent' = "handleSort" =>
          /\ sortField' = sortField => sortOrder' # sortOrder
          /\ sortField' # sortField => sortOrder' = "desc"]_vars

\* two records are loaded, the search for "10" keeps the one with gross
\* earnings 10, and the list was sorted again by net earnings
C25_Witness ==
  /\ ~histEffectPending
  /\ Len(records) = 2
  /\ searchQuery = <<"1", "0">>
  /\ Len(filteredRecords) = 1
  /\ sortField = "net_earnings"
  /\ sortOrder = "asc"

\* C21: an earnings record is created and then at most deleted: no row of
\* earnings_records is ever changed, a row is inserted only by the save of
\* the form, a delete request is sent only after the user confirmed, and a
\* declined confirmation sends nothing and changes no state.
C21_RecordLifecycle ==
  [][
      /\ \A r \in earnings_records, w \in earnings_records' :
           r.id = w.id => r = w
      /\ (earnings_records' \ earnings_records) # {} =>
           /\ earnEvent' = "saveInserted"
           /\ earnSave # None
           /\ \E id \in 1..(MaxHistRows + 2) :
                earnings_records' =
                  earnings_records \cup {[id |-> id] @@ earnSave[1]}
      /\ (earnings_records \ earnings_records') # {} =>
           {r.id : r \in earnings_records \ earnings_records'}
             \subseteq histDeletes
      /\ (histDeletes' \ histDeletes) # {} => histEvent' = "deleteConfirmed"
      /\ (histEvent' = "deleteDeclined" /\ earnEvent' = earnEvent) =>
           /\ histDeletes' = histDeletes
           /\ earnings_records' = earnings_records
           /\ UNCHANGED <<authVars, earnVars, tripVars, svcVars, records,
                          filteredRecords, histEffectPending, histLoading,
                          searchQuery, sortField, sortOrder, selectedRecord,
                          histNotification, histTimers>>
    ]_vars

\* the row of the form was inserted and a listed row was deleted after the
\* user confirmed
C21_Witness ==
  /\ histEvent = "deleted"
  /\ earnEvent = "saveInserted"
  /\ earnings_records # {}

(***************************************************************************)
(* Claim about the owner of the records (checked under SpecOwner)          *)
(***************************************************************************)

\* every record of the list belongs to the current user
OwnedByUser(q) == \A i \in 1..Len(q) : q[i].user_id = user

\* C22: records are visible and writable only by their owner: every record
\* the application inserts carries the user_id of the user authenticated
\* when the action was taken, and every record list held in a view (the
\* earnings history, the upcoming services) contains only records whose
\* user_id is the current user's id, whatever the sequence of sign-in,
\* sign-out and load operations.
C22_OwnerOnly ==
  /\ [](OwnedByUser(upcomingServices) /\ OwnedByUser(records))
  /\ [][
         /\ (svcSave = None /\ svcSave' # None) => svcSave'[1].user_id = user
         /\ \A r \in service_records' \ service_records :
              svcSave # None /\ r.user_id = svcSave[1].user_id
       ]_vars

====
